---------------------------- MODULE Spec2Model ----------------------------
(***************************************************************************)
(* A model of the tool-calling orchestration of the xiaohongshu content    *)
(* generator: Server (core/xhs_llm_client.py), ContentGenerator.execute_   *)
(* step and ContentGenerator.generate_and_publish (core/content_generator  *)
(* .py).                                                                   *)
(*                                                                         *)
(* The program is one coroutine; an action is the code between two         *)
(* suspension points (a model completion call, list_tools, call_tool,      *)
(* initialize, cleanup).  The language model and the tool providers are    *)
(* the environment: what they answer is chosen with \E from small sets.    *)
(*                                                                         *)
(* Strings of the source that are not ASCII are written in ASCII here; the *)
(* comment beside each gives the original.                                 *)
(***************************************************************************)
EXTENDS Naturals, Sequences, FiniteSets, TLC

(***************************************************************************)
(* Program constants                                                       *)
(***************************************************************************)
\* content_generator.py:295  max_iterations = 10
max_iterations == 10

\* xhs_llm_client.py:160  retries: int = 2
retries == 2

\* xhs_llm_client.py:161  delay: float = 1.0 (seconds)
delay == 1

\* content_generator.py:148-167: the three entries of mcpServers, in the
\* order of the dict: 1 = jina-mcp-tools, 2 = tavily-remote, 3 = xhs.
NumServers == 3

ServerIds == 1..NumServers

ServerName(s) ==
    CASE s = 1 -> "jina-mcp-tools"
      [] s = 2 -> "tavily-remote"
      [] OTHER -> "xhs"

(***************************************************************************)
(* Configuration                                                           *)
(***************************************************************************)
\* config_manager.py:153-158: the four required fields
ConfigFields == {"llm_api_key", "openai_base_url", "default_model", "xhs_mcp_url"}

\* app.py:251: the fields the endpoint looks at
AppRequired == {"llm_api_key", "xhs_mcp_url"}

\* What a configuration holds for a field: "" stands for an absent key or
\* the empty string, "null" for a JSON null, "set" for a non-empty string
ConfigValues == {"", "null", "set"}

\* A configuration with every field set, and the value that stands for the
\* configuration of a generator that was not constructed
FullConfig == [f \in ConfigFields |-> "set"]
NoConfig == [f \in ConfigFields |-> "none"]

\* app.py:251   not config.get('llm_api_key') or not config.get('xhs_mcp_url')
AppConfigured(c) == \A f \in AppRequired : c[f] = "set"

\* content_generator.py:38-40: os.environ[...] = self.config.get(...) raises
\* TypeError when the value is None; the defaults stand in for absent keys
\* only
ConstructorRaises(c) ==
    \E f \in {"llm_api_key", "openai_base_url", "default_model"} : c[f] = "null"

\* app.py:126-131 with ConfigRequest (68-75): what POST /api/config stores;
\* the three model fields are non-empty strings, xhs_mcp_url is any string
SavedConfigs ==
    { [f \in ConfigFields |-> IF f = "xhs_mcp_url" THEN x ELSE "set"] :
        x \in {"", "set"} }

(***************************************************************************)
(* Bounds of the environment                                               *)
(***************************************************************************)
\* Most tool invocations one model response requests.
MaxCalls == 2

\* The environment has a routine: every server initializes, the model asks
\* for one search at a time, the search returns at once, and the model ends
\* a step with a text.  MaxFuel bounds what else it does over one run: each
\* tool invocation the model chooses freely (any tool, any arguments, any
\* provider outcome), each text beside tool invocations, each final response
\* without content, each model call that raises, each failed initialize, a
\* client that cannot be built and each close that raises spends one unit.
\* Within a step the routine turns come first.
MaxFuel == 2

\* The same budget in the executions of a step that are followed to their end.
MaxFairFuel == 1

\* Tool-requesting responses over one run of generate_and_publish.
MaxRunRounds == 1

(***************************************************************************)
(* Text.  A text is a sequence of characters, a character a one-symbol     *)
(* string; "u6210" stands for the character U+6210, and so on.             *)
(***************************************************************************)
UpperCase == <<"A","B","C","D","E","F","G","H","I","J","K","L","M",
               "N","O","P","Q","R","S","T","U","V","W","X","Y","Z">>

LowerCase == <<"a","b","c","d","e","f","g","h","i","j","k","l","m",
               "n","o","p","q","r","s","t","u","v","w","x","y","z">>

UpperCaseSet == {UpperCase[i] : i \in 1..Len(UpperCase)}

\* str.lower() on one character
LowerChar(c) ==
    IF c \in UpperCaseSet
    THEN LowerCase[CHOOSE i \in 1..Len(UpperCase) : UpperCase[i] = c]
    ELSE c

\* str.lower()
Lower(t) ==
    LET text == SubSeq(t, 1, Len(t))
    IN  [i \in 1..Len(text) |-> LowerChar(text[i])]

\* Python's  sub in t
Contains(t, sub) ==
    LET text == SubSeq(t, 1, Len(t))
    IN  \E i \in 0..(Len(text) - Len(sub)) :
            \A j \in 1..Len(sub) : text[i + j] = sub[j]

\* str.strip(): the text without its leading and trailing whitespace
Whitespace == {" ", "\n", "\t", "\r"}

RECURSIVE FirstSolid(_, _)
FirstSolid(t, i) ==
    IF i > Len(t) \/ t[i] \notin Whitespace THEN i ELSE FirstSolid(t, i + 1)

RECURSIVE LastSolid(_, _)
LastSolid(t, i) ==
    IF i < 1 \/ t[i] \notin Whitespace THEN i ELSE LastSolid(t, i - 1)

Strip(t) == SubSeq(t, FirstSolid(t, 1), LastSolid(t, Len(t)))

\* The texts the environment produces, by name.
PayloadSuccess == "Published successfully"
PayloadFailure == "Error: rate limited"
PayloadPlain == "3 results found"
ExceptionText == "connection reset"
PayloadLong == "a long failure report"
ExceptionPadded == "upstream timeout, with a line end"
PayloadUpper == "PUBLISHED in capitals"
PayloadLocalized == "published, in Chinese"
ExceptionMarked == "publish unsuccessful"

\* content_generator.py:492: the most characters of an error detail
ErrorDetailLimit == 500

Chars(id) ==
    CASE id = PayloadSuccess ->
           <<"P","u","b","l","i","s","h","e","d"," ",
             "s","u","c","c","e","s","s","f","u","l","l","y">>
      [] id = PayloadFailure ->
           <<"E","r","r","o","r",":"," ","r","a","t","e"," ",
             "l","i","m","i","t","e","d">>
      [] id = PayloadPlain ->
           <<"3"," ","r","e","s","u","l","t","s"," ","f","o","u","n","d">>
      [] id = ExceptionText ->
           <<"c","o","n","n","e","c","t","i","o","n"," ","r","e","s","e","t">>
      [] id = PayloadLong -> [i \in 1..(ErrorDetailLimit + 100) |-> "x"]
      [] id = ExceptionPadded ->
           <<"u","p","s","t","r","e","a","m"," ","t","i","m","e","o","u","t","\n">>
      [] id = PayloadUpper -> <<"P","U","B","L","I","S","H","E","D">>
      [] id = PayloadLocalized -> <<"u53D1","u5E03","u6210","u529F">>
      [] id = ExceptionMarked ->
           <<"p","u","b","l","i","s","h"," ",
             "u","n","s","u","c","c","e","s","s","f","u","l">>
      [] id = "search" -> <<"s","e","a","r","c","h">>
      [] id = "publish_content" ->
           <<"p","u","b","l","i","s","h","_","c","o","n","t","e","n","t">>
      [] id = "ghost_tool" -> <<"g","h","o","s","t","_","t","o","o","l">>
      [] OTHER -> <<>>

(***************************************************************************)
(* Tool results.  tool_result is None, what call_tool returned, the inline *)
(* error string of line 355, or the not-found string of line 358.          *)
(***************************************************************************)
None == [kind |-> "none", text |-> ""]

Returned(payload) == [kind |-> "ok", text |-> payload]

\* content_generator.py:355  f"Error: {str(e)}"
InlineError(e) == [kind |-> "error", text |-> e]

\* content_generator.py:358  f"未找到工具 {tool_name}"
NotFound(tool_name) == [kind |-> "notfound", text |-> tool_name]

\* str(tool_result), as characters
Str(r) ==
    CASE r.kind = "ok" -> Chars(r.text)
      [] r.kind = "error" -> <<"E","r","r","o","r",":"," ">> \o Chars(r.text)
      [] r.kind = "notfound" ->
           <<"u672A","u627E","u5230","u5DE5","u5177"," ">> \o Chars(r.text)
      [] OTHER -> <<"N","o","n","e">>


(***************************************************************************)
(* Values of the environment                                               *)
(***************************************************************************)
\* message.content of a response: None, the empty string, or a text
NoneContent == "<None>"

AnswerText == "final answer"

\* A variant of ContentOr that keeps a missing content as it is
ContentOrKeepsNone(c, d) == c

\* Python's  c or d  on a content
ContentOr(c, d) == IF c \in {NoneContent, ""} THEN d ELSE c

\* tool_call.function.arguments: a serialized JSON object
RawQuery == "{\"query\": \"q\"}"
RawPost1 == "{\"title\": \"T1\"}"
RawPost2 == "{\"title\": \"T2\"}"
RawEmptyObject == "{}"

\* An arguments string that is not JSON
RawMalformed == "{bad"

\* json.loads: a dict is a set of <<key, value>> pairs
JsonLoads(raw) ==
    CASE raw = RawQuery -> [ok |-> TRUE, value |-> {<<"query", "q">>}]
      [] raw = RawPost1 -> [ok |-> TRUE, value |-> {<<"title", "T1">>}]
      [] raw = RawPost2 -> [ok |-> TRUE, value |-> {<<"title", "T2">>}]
      [] raw = RawEmptyObject -> [ok |-> TRUE, value |-> {}]
      [] OTHER -> [ok |-> FALSE, value |-> {}]

\* json.dumps of a dict, with the default separators
JsonDumps(value) ==
    CASE value = {<<"query", "q">>} -> RawQuery
      [] value = {<<"title", "T1">>} -> RawPost1
      [] value = {<<"title", "T2">>} -> RawPost2
      [] OTHER -> RawEmptyObject

\* content_generator.py:338-341
ParseArguments(raw) ==
    IF raw = "" THEN {}
    ELSE IF JsonLoads(raw).ok THEN JsonLoads(raw).value ELSE {}

\* The tool catalog each provider declares (session.list_tools()).  Both
\* search providers declare "search"; only xhs declares publish_content.
Catalog(s) ==
    CASE s = 1 -> {"search"}
      [] s = 2 -> {"search"}
      [] OTHER -> {"publish_content"}

\* The invocations a model may request: (name, arguments)
SearchCall == [name |-> "search", arguments |-> RawQuery]

FreeCalls ==
    { SearchCall,
      [name |-> "publish_content", arguments |-> RawPost1],
      [name |-> "publish_content", arguments |-> RawPost2],
      [name |-> "ghost_tool", arguments |-> RawQuery] }

\* Sequences of 1..n free invocations
FreeTurns(n) ==
    UNION { [1..k -> FreeCalls] : k \in 1..(IF n < MaxCalls THEN n ELSE MaxCalls) }

\* The provider-issued call ids of the k-th response of a step
CallId(k, i) == 10 * k + i

WithIds(turn, k) ==
    [i \in 1..Len(turn) |->
        [id |-> CallId(k, i), name |-> turn[i].name, arguments |-> turn[i].arguments]]

(***************************************************************************)
(* State                                                                   *)
(***************************************************************************)
VARIABLES
    \* ContentGenerator and its Servers
    servers,        \* self.servers: the Server ids, in registration order
    session,        \* session[s]: Server s holds a session (is not None)
    exit_stack,     \* exit_stack[s]: the contexts entered on s.exit_stack
    closed,         \* history: a cleanup() took the session of s away
    acquired,       \* history: how many contexts were ever entered on s
    released,       \* history: the contexts of s that were exited, in order
    lastCall,       \* history: the last call made on a Server and how it ended
    \* generate_and_publish
    dpc,            \* where generate_and_publish is
    available_tools,\* the tools get_available_tools returned
    results,        \* the outcomes of the steps run so far
    stepIdx,        \* the step being run (1..3)
    dIdx,           \* the loop index of initialize_servers and cleanup_servers
    runResult,      \* what generate_and_publish returned, or None
    cleaned,        \* history: the servers cleanup_servers called cleanup() on
    \* execute_step
    step,           \* the step argument, a dict
    previous_results, \* the previous_results argument
    pc,             \* where execute_step is
    messages,       \* the running conversation
    all_tool_call_details, \* the tool log
    iteration,
    publish_success,
    publish_error,
    response,       \* the response whose tool calls are being executed
    final_message,  \* the last follow-up response's message
    tcIdx,          \* index of the tool call being executed in the turn
    srvIdx,         \* index in servers of the server being looked at
    tool_result,
    stepResult,     \* what execute_step returned, or None
    \* Server.execute_tool
    attempt,
    \* history, not read by the program
    modelCalls,     \* completion calls made in this step
    toolCalls,      \* session.call_tool attempts made by the running execute_tool
    toolExecuted,   \* session.call_tool was called in this step
    sleeps,         \* the waits of the running execute_tool, in order
    execEnd,        \* how the last execute_tool ended: "", "returned", "raised"
    \* the environment's budget
    fuel,           \* what is left of MaxFuel
    rounds,         \* tool-requesting responses the model may still give
    deviated,       \* the model has left the routine in this step
    modelError,     \* which model call of this step swallowed an error, or ""
    \* the application around the generator
    config,         \* the stored configuration: what it holds for each field
    self_config,    \* self.config of the ContentGenerator: the dict it was built with
    llm_client,     \* self.llm_client of the ContentGenerator is not None
    \* Tool.to_openai_tool
    tool,           \* a Tool object: its name and its stored input_schema
    openai_tool,    \* what to_openai_tool returned, or None
    \* several generators in one process
    environ,        \* os.environ: for each key the run whose value it holds
    runPc,          \* for each run, how far it is
    childEnv,       \* for each run, the environment its stdio provider got
    \* several cleanup() calls at once
    cleanup_lock,   \* cleanup_lock[s]: the task holding s._cleanup_lock, or 0
    waiters,        \* waiters[s]: the tasks waiting for s._cleanup_lock, in order
    cpc,            \* for each task, where its cleanup() is and on which server
    ipc,            \* where the initialize() in progress is and on which server
    \* one call of LLMClient and its adapter
    llmCall,        \* the call: which method, which adapter, the conversation
    request,        \* the parameters the adapter hands to the provider's SDK
    completion      \* what the provider returned and what the caller gets

connVars == <<session, exit_stack, closed, acquired, released, lastCall>>

serverVars == <<servers, connVars>>

driverVars == <<dpc, available_tools, results, stepIdx, dIdx, runResult, cleaned>>

argVars == <<step, previous_results>>

stepVars == <<argVars, pc, messages, all_tool_call_details, iteration, publish_success,
              publish_error, response, final_message, tcIdx, srvIdx,
              tool_result, stepResult, attempt, modelCalls, toolCalls,
              toolExecuted, sleeps, execEnd>>

envVars == <<fuel, rounds, deviated, modelError>>

toolVars == <<tool, openai_tool>>
runVars == <<environ, runPc, childEnv>>
taskVars == <<cleanup_lock, waiters, cpc>>
lockVars == <<taskVars, ipc>>
adapterVars == <<llmCall, request, completion>>
generatorVars == <<self_config, llm_client>>
appVars == <<config, generatorVars, toolVars, runVars, lockVars, adapterVars>>
vars == <<appVars, serverVars, driverVars, stepVars, envVars>>

\* content_generator.py:38-40: the keys _create_mcp_config writes
EnvKeys == {"LLM_API_KEY", "OPENAI_BASE_URL", "DEFAULT_MODEL"}

\* Generators constructed in one process, each with a configuration of its
\* own: the values of the configuration of run r are written r
NumRuns == 3

Runs == 1..NumRuns

\* A key no run has written
Unset == 0

\* No generator has been constructed in the process
NoRuns ==
    /\ environ = [k \in EnvKeys |-> Unset]
    /\ runPc = [r \in Runs |-> "new"]
    /\ childEnv = [r \in Runs |-> [k \in EnvKeys |-> Unset]]

\* Tasks that call cleanup() at the same time
NumTasks == 2

Tasks == 1..NumTasks

\* A task that is in no cleanup(); no initialize() is in progress
Idle == [at |-> "idle", server |-> 0]

\* xhs_llm_client.py:89: the locks as Server.__init__ makes them, no task
\* in cleanup() and no initialize() in progress
NoTasks ==
    /\ cleanup_lock = [s \in ServerIds |-> 0]
    /\ waiters = [s \in ServerIds |-> <<>>]
    /\ cpc = [t \in Tasks |-> Idle]
    /\ ipc = Idle

\* No call of LLMClient is looked at
NoAdapter ==
    /\ llmCall = [kind |-> "none"]
    /\ request = [kind |-> "none"]
    /\ completion = [kind |-> "none"]

\* No Tool object is looked at
NoTool ==
    /\ tool = None
    /\ openai_tool = None


(***************************************************************************)
(* The environment: what the model answers, what a provider answers        *)
(***************************************************************************)
\* The k-th response of a step.  cost is the fuel it spends.
FinalResponses ==
    { [content |-> AnswerText, tool_calls |-> <<>>, cost |-> 0, free |-> FALSE] }
    \cup
    (IF fuel > 0
     THEN { [content |-> c, tool_calls |-> <<>>, cost |-> 1, free |-> FALSE] :
              c \in {NoneContent, ""} }
     ELSE {})

RoutineResponses(k) ==
    IF ~deviated /\ rounds > 0
    THEN { [content |-> NoneContent, tool_calls |-> WithIds(<<SearchCall>>, k),
            cost |-> 0, free |-> FALSE] }
    ELSE {}

FreeResponses(k) ==
    IF fuel > 0 /\ rounds > 0
    THEN { [content |-> NoneContent, tool_calls |-> WithIds(t, k),
            cost |-> Len(t), free |-> TRUE] : t \in FreeTurns(fuel) }
         \cup
         { [content |-> AnswerText, tool_calls |-> WithIds(t, k),
            cost |-> Len(t) + 1, free |-> TRUE] : t \in FreeTurns(fuel - 1) }
    ELSE {}

LLMResponses(k) == FinalResponses \cup RoutineResponses(k) \cup FreeResponses(k)

\* xhs_llm_client.py:315, 325 and 388, 398: the text of the response that
\* stands for a completion that raised "connection refused"
ModelErrorText(op) ==
    IF op = "tool_call"
    THEN "I encountered an error: Error getting LLM response: connection refused. Please try again or rephrase your request."
    ELSE "I encountered an error while generating the final response: Error getting final LLM response: connection refused. Please try again."

\* A variant of ErrorResponse that carries no text
ErrorResponseSilent(error_msg) == [content |-> NoneContent, tool_calls |-> <<>>]

\* xhs_llm_client.py:317-325, 390-398: the ErrorResponse object; its message
\* has the text as content and tool_calls None
ErrorResponse(error_msg) == [content |-> error_msg, tool_calls |-> <<>>]

\* xhs_llm_client.py:305-325 (op "tool_call") and 343-398 (op "final"): what
\* the call returns when the completion raises
DegradedResponses(op) ==
    IF fuel > 0
    THEN { [content |-> ErrorResponse(ModelErrorText(op)).content,
            tool_calls |-> ErrorResponse(ModelErrorText(op)).tool_calls,
            cost |-> 1, free |-> FALSE] }
    ELSE {}

Message(r) == [content |-> r.content, tool_calls |-> r.tool_calls]

\* What one session.call_tool attempt does: it returns a payload or raises.
\* The search of a routine turn returns.
CallOutcomes ==
    IF ~deviated
    THEN { [raised |-> FALSE, text |-> PayloadPlain] }
    ELSE { [raised |-> FALSE, text |-> PayloadSuccess],
           [raised |-> FALSE, text |-> PayloadFailure],
           [raised |-> TRUE, text |-> ExceptionText] }

(***************************************************************************)
(* Server: initialize and cleanup (xhs_llm_client.py:84-133, 199-207)      *)
(***************************************************************************)
\* No call has been made yet
NoCall == [op |-> "", server |-> 0, raised |-> FALSE]

\* xhs_llm_client.py:84-90: a Server just constructed
NoStack == [s \in ServerIds |-> <<>>]

\* The two contexts initialize enters: the transport, then the ClientSession
Entered == <<"transport", "session">>

\* A variant of StackAfterClose in which the contexts stay on the stack
StackKept(stack) == stack

\* contextlib.AsyncExitStack.aclose(), called at xhs_llm_client.py:203,
\* pops every context before it exits it: the stack is empty afterwards,
\* whether an exit raised or not
StackAfterClose(stack) == <<>>

\* The contexts aclose() exits, last entered first.  A context is named by
\* its number in the order the server entered them; `top` is the number of
\* the last one entered
Exited(top, stack) == [i \in 1..Len(stack) |-> top + 1 - i]

\* A variant of SessionAfterClose that clears the session in any case
SessionClearedAlways(had, close) == FALSE

\* xhs_llm_client.py:202-207: self.session = None comes after the await of
\* aclose() inside the try; when aclose() raises it is skipped
SessionAfterClose(had, close) == IF close = "ok" THEN FALSE ELSE had

\* xhs_llm_client.py:202-207: the await of aclose() ends as `close` says.
\* AsyncExitStack.aclose() leaves the stack empty whether an exit raised or
\* not; the error is logged
CloseStack(s, close) ==
    /\ session' = [session EXCEPT ![s] = SessionAfterClose(session[s], close)]
    /\ exit_stack' = [exit_stack EXCEPT ![s] = StackAfterClose(exit_stack[s])]
    /\ released' = [released EXCEPT ![s] = @ \o Exited(acquired[s], exit_stack[s])]
    /\ UNCHANGED acquired
    /\ closed' = [closed EXCEPT ![s] =
                     closed[s] \/ (session[s] /\ ~SessionAfterClose(session[s], close))]

\* xhs_llm_client.py:199-207: cleanup()
DoCleanup(s, close) ==
    /\ CloseStack(s, close)
    /\ lastCall' = [op |-> "cleanup", server |-> s, raised |-> FALSE]

\* Where initialize() on server s is suspended: at the await that enters
\* the ClientSession ("session"), at the await of session.initialize()
\* ("handshake"), or, after an error inside the try, at the await of
\* aclose() in cleanup() ("cleanup").  The await that enters the transport
\* is reached with nothing changed: it is the state in which the call is made
InitializeAt(at, s) == [at |-> at, server |-> s]

\* xhs_llm_client.py:99-100, 116-117: the ValueError of a configuration
\* without a url or a command, raised before the try and before any await
RaiseInvalid(s) ==
    /\ lastCall' = [op |-> "initialize", server |-> s, raised |-> TRUE]
    /\ UNCHANGED <<session, exit_stack, closed, acquired, released, ipc>>

\* xhs_llm_client.py:104-106, 125-127: the await of enter_async_context for
\* context k of Entered ends.  Entered, the context is on the exit stack and
\* the call runs into the next await; when it raised, the except clause
\* calls cleanup(), which takes the free lock and runs into the await of
\* aclose() (109-111, 130-132, 201-203)
EnterContext(s, k, entered) ==
    /\ IF entered
       THEN /\ exit_stack' = [exit_stack EXCEPT ![s] = Append(@, Entered[k])]
            /\ acquired' = [acquired EXCEPT ![s] = @ + 1]
            /\ ipc' = InitializeAt(IF k < Len(Entered) THEN "session" ELSE "handshake", s)
       ELSE /\ ipc' = InitializeAt("cleanup", s)
            /\ UNCHANGED <<exit_stack, acquired>>
    /\ UNCHANGED <<session, closed, released, lastCall>>

\* xhs_llm_client.py:107-108, 128-129: the await of session.initialize()
\* ends.  When it returned the session is stored and the call returns;
\* when it raised the except clause calls cleanup()
Handshake(s, ok) ==
    /\ IF ok
       THEN /\ session' = [session EXCEPT ![s] = TRUE]
            /\ lastCall' = [op |-> "initialize", server |-> s, raised |-> FALSE]
            /\ ipc' = Idle
       ELSE /\ ipc' = InitializeAt("cleanup", s)
            /\ UNCHANGED <<session, lastCall>>
    /\ UNCHANGED <<exit_stack, closed, acquired, released>>

\* xhs_llm_client.py:111-112, 132-133 with 203-207: the await of aclose()
\* in the cleanup() of a failed initialize() ends; cleanup() returns and
\* the error is raised again
CleanupAndRaise(s, close) ==
    /\ CloseStack(s, close)
    /\ lastCall' = [op |-> "initialize", server |-> s, raised |-> TRUE]
    /\ ipc' = Idle

\* aclose() can raise only when an entered context is left
CloseOutcomes(s) == IF Len(exit_stack[s]) > 0 THEN {"ok", "raised"} ELSE {"ok"}

\* What else an attempt on publish_content may do, once the model has left
\* the routine: a long failure report, an error whose text ends a line
PublishOutcomes ==
    IF deviated
    THEN { [raised |-> FALSE, text |-> PayloadLong],
           [raised |-> TRUE, text |-> ExceptionPadded] }
    ELSE {}

\* Every payload a call may return and every error text it may raise with
Payloads ==
    {PayloadSuccess, PayloadFailure, PayloadPlain, PayloadLong, PayloadUpper,
     PayloadLocalized}

ExceptionTexts == {ExceptionText, ExceptionPadded, ExceptionMarked}

\* What an attempt may do when the detection is looked at on its own: once
\* the model has left the routine, every payload and every error
DetectOutcomes ==
    IF deviated
    THEN { [raised |-> FALSE, text |-> p] : p \in Payloads }
         \cup { [raised |-> TRUE, text |-> e] : e \in ExceptionTexts }
    ELSE CallOutcomes

CallOutcomesOf(tool_name) ==
    IF dpc = "detect" THEN DetectOutcomes
    ELSE IF tool_name = "publish_content" THEN CallOutcomes \cup PublishOutcomes
    ELSE CallOutcomes

(***************************************************************************)
(* ContentGenerator.execute_step                                           *)
(***************************************************************************)
\* content_generator.py:303, 314, 400   message.tool_calls is truthy
HasToolCalls(msg) == Len(msg.tool_calls) > 0

\* A variant of LoopContinues that is off by one
LoopContinuesOffByOne(it) == it <= max_iterations

\* content_generator.py:308   while iteration < max_iterations
LoopContinues(it) == it < max_iterations

\* content_generator.py:364   the three literal markers
SuccessMarkers ==
    { <<"s","u","c","c","e","s","s">>,
      <<"u6210","u529F">>,
      <<"p","u","b","l","i","s","h","e","d">> }

\* A variant of HasSuccessMarker that looks only at what a call returned
HasSuccessMarkerReturned(r) ==
    /\ r.kind = "ok"
    /\ \E m \in SuccessMarkers : Contains(Lower(Str(r)), m)

\* content_generator.py:363-364
HasSuccessMarker(r) ==
    LET result_str == Lower(Str(r))
    IN  \E m \in SuccessMarkers : Contains(result_str, m)

\* Every value tool_result takes, and those among them that carry a marker
ToolResults ==
    { Returned(p) : p \in Payloads }
    \cup { InlineError(e) : e \in ExceptionTexts }
    \cup { NotFound(n) : n \in {"search", "publish_content", "ghost_tool"} }

MarkedResults == { r \in ToolResults : HasSuccessMarker(r) }

\* content_generator.py:361   the designated terminal action
IsPublishTool(tool_name) == tool_name = "publish_content"

\* content_generator.py:392   "内容已成功发布到小红书平台"
PublishedAnswer == "content published to xiaohongshu"

\* content_generator.py:412   "任务执行超出最大迭代次数限制"
ExhaustedAnswer == "task exceeded the iteration limit"

\* A variant of ExhaustionContent that falls back to the empty string, as
\* line 407 does
ExhaustionContentEmpty(msg) == ContentOr(msg.content, "")

\* content_generator.py:412   final_message.content or <the fixed message>
ExhaustionContent(msg) == ContentOr(msg.content, ExhaustedAnswer)

StepId(i) ==
    CASE i = 1 -> "step1"
      [] i = 2 -> "step2"
      [] OTHER -> "step3"

\* dict.get(key, default)
Get(d, key, default) == IF key \in DOMAIN d THEN d[key] ELSE default

\* content_generator.py:83-141: a step of the plan get_research_plan returns
PlanStep(i) ==
    [id |-> StepId(i), title |-> "title", description |-> "step description"]

\* A dict lacks one of the keys: d[key] raises KeyError
Lacks(d, keys) == \E k \in keys : k \notin DOMAIN d

\* content_generator.py:415-424
SuccessResult(i, details, it, content, ps, pe) ==
    [step_id |-> StepId(i),
     step_title |-> PlanStep(i).title,
     tool_calls |-> details,
     total_iterations |-> it,
     response |-> content,
     success |-> TRUE,
     publish_success |-> ps,
     publish_error |-> pe]

\* content_generator.py:428-435
FailureResult(i, e) ==
    [step_id |-> StepId(i), step_title |-> PlanStep(i).title, error |-> e,
     success |-> FALSE]

\* xhs_llm_client.py:145, 179   RuntimeError(f"Server {name} not initialized")
NotInitialized(s) == <<"Server", ServerName(s), "not initialized">>

\* xhs_llm_client.py:147: the text of the error that session.list_tools()
\* of server s raised
ListError(s) == <<"list_tools of", ServerName(s), "raised">>

\* content_generator.py:289-292
InitialMessages ==
    << [role |-> "system", content |-> "system_prompt", tool_calls |-> <<>>,
        tool_call_id |-> 0],
       [role |-> "user", content |-> "step description", tool_calls |-> <<>>,
        tool_call_id |-> 0] >>

\* content_generator.py:318-332
AssistantMsg(msg) ==
    [role |-> "assistant", content |-> ContentOr(msg.content, ""),
     tool_calls |-> msg.tool_calls, tool_call_id |-> 0]

\* A variant of ToolMsg that carries no call id
ToolMsgUnlinked(tc, r) ==
    [role |-> "tool", content |-> r, tool_calls |-> <<>>, tool_call_id |-> 0]

\* content_generator.py:382-386
ToolMsg(tc, r) ==
    [role |-> "tool", content |-> r, tool_calls |-> <<>>, tool_call_id |-> tc.id]

\* xhs_llm_client.py:349-380: the decision prompt of get_final_response
DecisionPrompt == "summary_prompt"

\* xhs_llm_client.py:343, 382-385: get_final_response appends the decision
\* prompt, as a system message, to a copy of the conversation
EnhancedMessages(msgs) ==
    Append(msgs, [role |-> "system", content |-> DecisionPrompt,
                  tool_calls |-> <<>>, tool_call_id |-> 0])

\* A variant of GetFinalResponse that appends the decision prompt to the
\* caller's list itself
GetFinalResponseInPlace(msgs) ==
    [caller |-> EnhancedMessages(msgs), sent |-> EnhancedMessages(msgs)]

\* xhs_llm_client.py:343-387: the two lists after get_final_response:
\* enhanced_messages = messages.copy() takes the prompt and is sent, the
\* caller's list is not written to
GetFinalResponse(msgs) ==
    [caller |-> msgs, sent |-> EnhancedMessages(msgs)]

\* A variant of ToolDetail that counts the rounds from 0
ToolDetailFromZero(it, tc, r) ==
    [iteration |-> it - 1, name |-> tc.name,
     arguments |-> ParseArguments(tc.arguments), result |-> r]

\* content_generator.py:373-378
ToolDetail(it, tc, r) ==
    [iteration |-> it, name |-> tc.name,
     arguments |-> ParseArguments(tc.arguments), result |-> r]

\* content_generator.py:346-347: the scan of self.servers starts; with no
\* server the for loop ends at once
ScanStart == IF Len(servers) = 0 THEN "record" ELSE "list"

\* The scan moves to the next server, or ends
ScanNext(i) == IF i < Len(servers) THEN "list" ELSE "record"

\* execute_step returns r
Return(r) ==
    /\ stepResult' = r
    /\ pc' = "returned"

\* A variant of Caught without the except clause: the error leaves
\* execute_step
Propagated(i, e) ==
    /\ pc' = "raised"
    /\ UNCHANGED stepResult

\* content_generator.py:428-435: an exception raised inside the try block
\* of step i is caught and returned as the outcome of the step
Caught(i, e) == Return(FailureResult(i, e))

\* content_generator.py:309-333: one more round starts on response r
EnterRound(msgs, r) ==
    /\ iteration' = iteration + 1
    /\ messages' = Append(msgs, AssistantMsg(r))
    /\ tcIdx' = 1
    /\ srvIdx' = 1
    /\ tool_result' = None
    /\ pc' = ScanStart

\* content_generator.py:221-286: the log line, the tool catalog and the
\* prompts are built before the try block is entered; a KeyError raised
\* here (step['id'], step['title'], step['description'], and step_id and
\* step_title of a previous result that has a response) leaves execute_step
PreparePrompt ==
    /\ pc = "prepare"
    /\ pc' = IF \/ Lacks(step, {"id", "title", "description"})
                \/ \E i \in 1..Len(previous_results) :
                      /\ Get(previous_results[i], "response", "") # ""
                      /\ Lacks(previous_results[i], {"step_id", "step_title"})
             THEN "raised"
             ELSE "initial"
    /\ UNCHANGED <<appVars, serverVars, driverVars, argVars, envVars, messages,
                   all_tool_call_details, iteration, publish_success,
                   publish_error, response, final_message, tcIdx, srvIdx,
                   tool_result, stepResult, attempt, modelCalls, toolCalls,
                   toolExecuted, sleeps, execEnd>>

\* content_generator.py:301   self.llm_client.get_tool_call_response on a
\* generator without a client: "'NoneType' object has no attribute ..."
NoClient(attribute) == <<"NoneType", "object has no attribute", attribute>>

\* What the initial call gives: a response of the model, and no response
\* when there is no client to ask
InitialResponses ==
    IF llm_client
    THEN LLMResponses(modelCalls + 1) \cup DegradedResponses("tool_call")
    ELSE { [content |-> NoneContent, tool_calls |-> <<>>, cost |-> 0, free |-> FALSE] }

\* content_generator.py:294-305: the initial call
InitialCall ==
    /\ pc = "initial"
    /\ \E r \in InitialResponses :
        /\ modelCalls' = IF llm_client THEN modelCalls + 1 ELSE modelCalls
        /\ fuel' = fuel - r.cost
        /\ rounds' = IF HasToolCalls(r) THEN rounds - 1 ELSE rounds
        /\ deviated' = (deviated \/ r.free)
        /\ modelError' = IF r \in DegradedResponses("tool_call") THEN "tool_call"
                         ELSE modelError
        /\ IF ~llm_client
           THEN \* self.llm_client is None: the AttributeError is caught at 428
                /\ Caught(stepIdx, NoClient("get_tool_call_response"))
                /\ UNCHANGED <<response, iteration, messages, tcIdx, srvIdx,
                               tool_result>>
           ELSE IF ~HasToolCalls(Message(r))
           THEN /\ response' = Message(r)
                /\ Return(SuccessResult(stepIdx, all_tool_call_details, iteration,
                                        ContentOr(r.content, ""),
                                        publish_success, publish_error))
                /\ UNCHANGED <<iteration, messages, tcIdx, srvIdx, tool_result>>
           ELSE /\ response' = Message(r)
                /\ EnterRound(messages, Message(r))
                /\ UNCHANGED stepResult
    /\ UNCHANGED <<appVars, serverVars, driverVars, argVars, all_tool_call_details, publish_success,
                   publish_error, final_message, attempt, toolCalls,
                   toolExecuted, sleeps, execEnd>>

CurrentCall == response.tool_calls[tcIdx]

\* xhs_llm_client.py:144-147: how list_tools() of server s may end.  It
\* raises on a server without session; on a server that holds one it
\* returns the catalog, or raises when session.list_tools() raises
ListOutcomes(s) ==
    IF ~session[s] THEN { [raised |-> TRUE, text |-> NotInitialized(s)] }
    ELSE { [raised |-> FALSE, text |-> <<>>],
           [raised |-> TRUE, text |-> ListError(s)] }

\* content_generator.py:347-349 with Server.list_tools (xhs_llm_client.py:
\* 144-154) and the entry of Server.execute_tool (178-181)
ListTools ==
    /\ pc = "list"
    /\ LET server == servers[srvIdx]
       IN  \E o \in ListOutcomes(server) :
           IF o.raised
           THEN \* list_tools raises; the step's except clause returns
                /\ Caught(stepIdx, o.text)
                /\ UNCHANGED <<srvIdx, attempt, toolCalls, sleeps, execEnd>>
           ELSE IF CurrentCall.name \in Catalog(server)
           THEN /\ pc' = "call"
                /\ attempt' = 0
                /\ toolCalls' = 0
                /\ sleeps' = <<>>
                /\ execEnd' = ""
                /\ UNCHANGED <<srvIdx, stepResult>>
           ELSE /\ srvIdx' = srvIdx + 1
                /\ pc' = ScanNext(srvIdx)
                /\ UNCHANGED <<stepResult, attempt, toolCalls, sleeps, execEnd>>
    /\ UNCHANGED <<appVars, serverVars, driverVars, argVars, envVars, messages, all_tool_call_details,
                   iteration, publish_success, publish_error, response,
                   final_message, tcIdx, tool_result, modelCalls, toolExecuted>>

\* A variant of RetryAgain that allows one attempt more
RetryAgainOnceMore(a) == a <= retries

\* xhs_llm_client.py:192   if attempt < retries
RetryAgain(a) == a < retries

\* xhs_llm_client.py:194   asyncio.sleep(delay) after the a-th failure
Wait(a) == delay

\* xhs_llm_client.py:182-197: one pass of the retry loop of execute_tool,
\* and what execute_step does when it returns (351-352) or raises (353-355)
CallTool ==
    /\ pc = "call"
    /\ \E o \in CallOutcomesOf(CurrentCall.name) :
        /\ toolCalls' = toolCalls + 1
        /\ toolExecuted' = TRUE
        /\ IF ~o.raised
           THEN \* return result; execute_step breaks out of the scan
                /\ tool_result' = Returned(o.text)
                /\ execEnd' = "returned"
                /\ pc' = "record"
                /\ UNCHANGED <<attempt, sleeps, srvIdx>>
           ELSE IF RetryAgain(attempt + 1)
           THEN \* asyncio.sleep(delay), then the next attempt
                /\ attempt' = attempt + 1
                /\ sleeps' = Append(sleeps, Wait(attempt + 1))
                /\ UNCHANGED <<tool_result, execEnd, pc, srvIdx>>
           ELSE \* raise; execute_step records the error and scans on
                /\ attempt' = attempt + 1
                /\ execEnd' = "raised"
                /\ tool_result' = InlineError(o.text)
                /\ srvIdx' = srvIdx + 1
                /\ pc' = ScanNext(srvIdx)
                /\ UNCHANGED sleeps
    /\ UNCHANGED <<appVars, serverVars, driverVars, argVars, envVars, messages, all_tool_call_details,
                   iteration, publish_success, publish_error, response,
                   final_message, tcIdx, stepResult, modelCalls>>

\* content_generator.py:361-366: publish_success after an invocation of
\* tool_name whose result does (marked) or does not carry a marker
NextPublishSuccess(tool_name, marked, old) ==
    IF IsPublishTool(tool_name) /\ marked THEN TRUE ELSE old

\* content_generator.py:361-370: publish_error after that invocation
NextPublishError(tool_name, marked, r, old) ==
    IF IsPublishTool(tool_name) /\ ~marked THEN r ELSE old

\* content_generator.py:389   if publish_success: ... break
StopsAfterPublish(ps) == ps

\* content_generator.py:335   for tool_call in message.tool_calls: the loop
\* has no exit on publish_success, which is looked at after it (389)
MoreCalls(idx, calls, ps) == idx < Len(calls)

\* content_generator.py:357-386: the result of one invocation is recorded
RecordToolCall ==
    /\ pc = "record"
    /\ LET tc == CurrentCall
           r == IF tool_result = None THEN NotFound(tc.name) ELSE tool_result
           marked == r \in MarkedResults
       IN  /\ publish_success' = NextPublishSuccess(tc.name, marked, publish_success)
           /\ publish_error' = NextPublishError(tc.name, marked, r, publish_error)
           /\ all_tool_call_details' =
                 Append(all_tool_call_details, ToolDetail(iteration, tc, r))
           /\ messages' = Append(messages, ToolMsg(tc, r))
    /\ IF MoreCalls(tcIdx, response.tool_calls, publish_success')
       THEN /\ tcIdx' = tcIdx + 1
            /\ srvIdx' = 1
            /\ pc' = ScanStart
       ELSE /\ pc' = "decide"
            /\ UNCHANGED <<tcIdx, srvIdx>>
    /\ tool_result' = None
    /\ UNCHANGED <<appVars, serverVars, driverVars, argVars, envVars, iteration, response,
                   final_message, stepResult, attempt, modelCalls, toolCalls,
                   toolExecuted, sleeps, execEnd>>

\* content_generator.py:388-393: publish succeeded in this turn
PublishBreak ==
    /\ pc = "decide"
    /\ StopsAfterPublish(publish_success)
    /\ Return(SuccessResult(stepIdx, all_tool_call_details, iteration,
                            PublishedAnswer, publish_success, publish_error))
    /\ UNCHANGED <<appVars, serverVars, driverVars, argVars, envVars, messages, all_tool_call_details,
                   iteration, publish_success, publish_error, response,
                   final_message, tcIdx, srvIdx, tool_result, attempt,
                   modelCalls, toolCalls, toolExecuted, sleeps, execEnd>>

\* content_generator.py:395-412: the follow-up call and what the loop does
\* with its answer
FollowUp ==
    /\ pc = "decide"
    /\ ~StopsAfterPublish(publish_success)
    /\ \E r \in LLMResponses(modelCalls + 1) \cup DegradedResponses("final") :
        /\ modelCalls' = modelCalls + 1
        /\ fuel' = fuel - r.cost
        /\ rounds' = IF HasToolCalls(r) THEN rounds - 1 ELSE rounds
        /\ deviated' = (deviated \/ r.free)
        /\ modelError' = IF r \in DegradedResponses("final") THEN "final"
                         ELSE modelError
        /\ final_message' = Message(r)
        /\ IF HasToolCalls(Message(r))
           THEN /\ response' = Message(r)
                /\ IF LoopContinues(iteration)
                   THEN /\ EnterRound(GetFinalResponse(messages).caller,
                                       Message(r))
                        /\ UNCHANGED stepResult
                   ELSE \* the while's else clause
                        /\ Return(SuccessResult(stepIdx, all_tool_call_details,
                                                iteration,
                                                ExhaustionContent(Message(r)),
                                                publish_success, publish_error))
                        /\ messages' = GetFinalResponse(messages).caller
                        /\ UNCHANGED <<iteration, tcIdx, srvIdx, tool_result>>
           ELSE /\ Return(SuccessResult(stepIdx, all_tool_call_details, iteration,
                                        ContentOr(r.content, ""),
                                        publish_success, publish_error))
                /\ messages' = GetFinalResponse(messages).caller
                /\ UNCHANGED <<response, iteration, tcIdx, srvIdx, tool_result>>
    /\ UNCHANGED <<appVars, serverVars, driverVars, argVars, all_tool_call_details, publish_success,
                   publish_error, attempt, toolCalls, toolExecuted, sleeps,
                   execEnd>>

StepNext ==
    \/ PreparePrompt
    \/ InitialCall
    \/ ListTools
    \/ CallTool
    \/ RecordToolCall
    \/ PublishBreak
    \/ FollowUp

\* The state at the entry of execute_step; the locals of the try block
\* (289-298) have their initial values
StepEntry ==
    /\ pc = "prepare"
    /\ messages = InitialMessages
    /\ all_tool_call_details = <<>>
    /\ iteration = 0
    /\ publish_success = FALSE
    /\ publish_error = None
    /\ response = [content |-> NoneContent, tool_calls |-> <<>>]
    /\ final_message = [content |-> NoneContent, tool_calls |-> <<>>]
    /\ tcIdx = 0
    /\ srvIdx = 0
    /\ tool_result = None
    /\ stepResult = None
    /\ attempt = 0
    /\ modelCalls = 0
    /\ toolCalls = 0
    /\ toolExecuted = FALSE
    /\ sleeps = <<>>
    /\ execEnd = ""

\* How many servers hold a session and are not among those of `listed`
Missed(listed) == Cardinality({ s \in ServerIds : session[s] /\ ~listed[s] })

\* content_generator.py:200-206: the servers whose list_tools() returns
\* during one get_available_tools.  One without session raises (xhs_llm_
\* client.py:144-145); of those that hold one, at most `budget` raise in
\* session.list_tools() (147)
Listed(budget) ==
    { listed \in [ServerIds -> BOOLEAN] :
        /\ \A s \in ServerIds : listed[s] => session[s]
        /\ Missed(listed) <= budget }

\* get_available_tools (197-208): the catalogs of the servers whose
\* list_tools() returned, in the order of self.servers; a server whose
\* list_tools() raised is logged and left out
ToolsOf(srvs, sess) ==
    LET RECURSIVE Go(_)
        Go(i) == IF i > Len(srvs) THEN <<>>
                 ELSE (IF sess[srvs[i]]
                       THEN [j \in 1..1 |-> Catalog(srvs[i])]
                       ELSE <<>>) \o Go(i + 1)
    IN  Go(1)

(***************************************************************************)
(* execute_step on its own: called once, on a generator whose servers are  *)
(* in any state (none created; each created one ready, or without session  *)
(* because its initialize failed or it was cleaned up).  The model may ask  *)
(* for tools more often than the loop can serve.                           *)
(***************************************************************************)
InitStepWith(f) ==
    /\ servers \in {<<>>, <<1, 2, 3>>}
    /\ session \in [ServerIds -> BOOLEAN]
    /\ servers = <<>> => session = [s \in ServerIds |-> FALSE]
    /\ exit_stack = [s \in ServerIds |-> IF session[s] THEN Entered ELSE <<>>]
    /\ closed = [s \in ServerIds |-> FALSE]
    /\ acquired = [s \in ServerIds |-> Len(exit_stack[s])]
    /\ released = NoStack
    /\ lastCall = NoCall
    /\ cleaned = <<>>
    /\ \E listed \in Listed(f) :
        /\ available_tools = ToolsOf(servers, listed)
        /\ fuel = f - Missed(listed)
    /\ results = <<>>
    /\ stepIdx = 3
    /\ dIdx = 0
    /\ runResult = None
    /\ step = PlanStep(3)
    /\ previous_results = <<>>
    /\ StepEntry
    /\ rounds = max_iterations + 2
    /\ deviated = FALSE
    /\ modelError = ""
    /\ config = FullConfig
    /\ self_config = FullConfig
    \* content_generator.py:27, 172-183: the client is created after the
    \* servers, and the servers are initialized after it (186-188)
    /\ llm_client \in BOOLEAN
    /\ servers = <<>> => ~llm_client
    /\ ~llm_client => session = [s \in ServerIds |-> FALSE]
    /\ NoTool
    /\ NoRuns
    /\ NoTasks
    /\ NoAdapter

InitStep == InitStepWith(MaxFuel) /\ dpc = "unit"

SpecStep == InitStep /\ [][StepNext]_vars

\* Every model call and every provider call returns
InitStepFair == InitStepWith(MaxFairFuel) /\ dpc = "unit" /\ step = PlanStep(3)

SpecStepFair == InitStepFair /\ [][StepNext]_vars /\ WF_vars(StepNext)


(***************************************************************************)
(* ContentGenerator.generate_and_publish                                   *)
(***************************************************************************)
\* content_generator.py:83-141: get_research_plan returns three steps
NumSteps == 3

\* content_generator.py:450-457: get_available_tools, and whether the
\* servers are to be created and initialized
GetAvailableTools ==
    /\ dpc = "tools"
    /\ \E listed \in Listed(fuel) :
        /\ available_tools' = ToolsOf(servers, listed)
        /\ dpc' = IF Len(ToolsOf(servers, listed)) = 0 THEN "create" ELSE "plan"
        /\ fuel' = fuel - Missed(listed)
    /\ UNCHANGED <<appVars, serverVars, results, stepIdx, dIdx, runResult, cleaned, stepVars,
                   rounds, deviated, modelError>>

\* A variant of RunFailure without the except clause: the run has no result
RunRaises(e) == None

\* content_generator.py:546-551: the result of a run that raised
RunFailure(e) == [success |-> FALSE, error |-> e]

\* A variant of CleanupStart that leaves the last server out
CleanupStartShort(srvs) == Len(srvs) - 1

\* content_generator.py:559: reversed(self.servers) starts at the last one
CleanupStart(srvs) == Len(srvs)

\* content_generator.py:171-183: initialize_servers creates the servers and
\* the LLMClient; when the client cannot be built the error leaves
\* initialize_servers (193-195) and generate_and_publish returns it (546-551)
CreateServers ==
    /\ dpc = "create"
    /\ servers' = [i \in 1..NumServers |-> i]
    /\ session' = [s \in ServerIds |-> FALSE]
    /\ exit_stack' = NoStack
    /\ closed' = [s \in ServerIds |-> FALSE]
    /\ acquired' = [s \in ServerIds |-> 0]
    /\ released' = NoStack
    /\ \E built \in {TRUE} \cup (IF fuel > 0 THEN {FALSE} ELSE {}) :
        /\ llm_client' = built
        /\ IF built
           THEN /\ dIdx' = 1
                /\ dpc' = "init"
                /\ UNCHANGED <<runResult, fuel>>
           ELSE /\ runResult' = RunFailure(<<"the client could not be built">>)
                /\ dIdx' = CleanupStart(servers')
                /\ dpc' = "cleanup"
                /\ fuel' = fuel - 1
    /\ UNCHANGED <<config, self_config, toolVars, runVars, lockVars, adapterVars,
                   lastCall, available_tools, results, stepIdx, cleaned, stepVars,
                   rounds, deviated, modelError>>

\* content_generator.py:186-191: initialize() has returned or raised; a
\* failure is logged, the server stays in self.servers without a session,
\* and the loop goes to the next server
NextServer ==
    IF dIdx < Len(servers)
    THEN /\ dIdx' = dIdx + 1
         /\ UNCHANGED dpc
    ELSE /\ dIdx' = 0
         /\ dpc' = "tools2"

\* content_generator.py:188 with xhs_llm_client.py:94-104, 115-125:
\* initialize() is called on the next server and runs up to the end of its
\* first await, the one that enters the transport
InitializeServer ==
    /\ dpc = "init"
    /\ ipc = Idle
    /\ \E o \in {"entered"} \cup (IF fuel > 0 THEN {"invalid", "raised"} ELSE {}) :
        /\ IF o = "invalid"
           THEN /\ RaiseInvalid(servers[dIdx])
                /\ NextServer
           ELSE /\ EnterContext(servers[dIdx], 1, o = "entered")
                /\ UNCHANGED <<dIdx, dpc>>
        /\ fuel' = IF o = "entered" THEN fuel ELSE fuel - 1
    /\ UNCHANGED <<config, generatorVars, toolVars, runVars, taskVars, adapterVars, servers,
                   available_tools, results, stepIdx, runResult, cleaned, stepVars,
                   rounds, deviated, modelError>>

\* xhs_llm_client.py:106, 127: the await that enters the ClientSession ends
InitializeSession ==
    /\ dpc = "init"
    /\ ipc = InitializeAt("session", servers[dIdx])
    /\ \E entered \in {TRUE} \cup (IF fuel > 0 THEN {FALSE} ELSE {}) :
        /\ EnterContext(servers[dIdx], 2, entered)
        /\ fuel' = IF entered THEN fuel ELSE fuel - 1
    /\ UNCHANGED <<dIdx, dpc>>
    /\ UNCHANGED <<config, generatorVars, toolVars, runVars, taskVars, adapterVars, servers,
                   available_tools, results, stepIdx, runResult, cleaned, stepVars,
                   rounds, deviated, modelError>>

\* xhs_llm_client.py:107-108, 128-129, then content_generator.py:189: the
\* await of session.initialize() ends
InitializeHandshake ==
    /\ dpc = "init"
    /\ ipc = InitializeAt("handshake", servers[dIdx])
    /\ \E ok \in {TRUE} \cup (IF fuel > 0 THEN {FALSE} ELSE {}) :
        /\ Handshake(servers[dIdx], ok)
        /\ fuel' = IF ok THEN fuel ELSE fuel - 1
        /\ IF ok THEN NextServer ELSE UNCHANGED <<dIdx, dpc>>
    /\ UNCHANGED <<config, generatorVars, toolVars, runVars, taskVars, adapterVars, servers,
                   available_tools, results, stepIdx, runResult, cleaned, stepVars,
                   rounds, deviated, modelError>>

\* xhs_llm_client.py:111-112, 132-133, then content_generator.py:190-191:
\* the cleanup() of a failed initialize() ends and the error reaches
\* initialize_servers, which logs it
InitializeCleanup ==
    /\ dpc = "init"
    /\ ipc = InitializeAt("cleanup", servers[dIdx])
    /\ \E close \in CloseOutcomes(servers[dIdx]) : CleanupAndRaise(servers[dIdx], close)
    /\ NextServer
    /\ UNCHANGED fuel
    /\ UNCHANGED <<config, generatorVars, toolVars, runVars, taskVars, adapterVars, servers,
                   available_tools, results, stepIdx, runResult, cleaned, stepVars,
                   rounds, deviated, modelError>>

\* content_generator.py:455: get_available_tools after initialize_servers
GetAvailableToolsAgain ==
    /\ dpc = "tools2"
    /\ \E listed \in Listed(fuel) :
        /\ available_tools' = ToolsOf(servers, listed)
        /\ fuel' = fuel - Missed(listed)
    /\ dpc' = "plan"
    /\ UNCHANGED <<appVars, serverVars, results, stepIdx, dIdx, runResult, cleaned, stepVars,
                   rounds, deviated, modelError>>

\* A variant of PreviousResults that hands no outcome over
PreviousResultsNone(rs) == <<>>

\* content_generator.py:465: the results list is the previous_results
\* argument of execute_step
PreviousResults(rs) == rs

\* content_generator.py:464-465 and 289-298: the next step of the plan is
\* handed to execute_step
StartStep ==
    /\ dpc = "plan"
    /\ stepIdx' = stepIdx + 1
    /\ dpc' = "step"
    /\ step' = PlanStep(stepIdx + 1)
    /\ previous_results' = PreviousResults(results)
    /\ pc' = "prepare"
    /\ messages' = InitialMessages
    /\ all_tool_call_details' = <<>>
    /\ iteration' = 0
    /\ publish_success' = FALSE
    /\ publish_error' = None
    /\ response' = [content |-> NoneContent, tool_calls |-> <<>>]
    /\ final_message' = [content |-> NoneContent, tool_calls |-> <<>>]
    /\ tcIdx' = 0
    /\ srvIdx' = 0
    /\ tool_result' = None
    /\ stepResult' = None
    /\ attempt' = 0
    /\ modelCalls' = 0
    /\ toolCalls' = 0
    /\ toolExecuted' = FALSE
    /\ sleeps' = <<>>
    /\ execEnd' = ""
    /\ deviated' = FALSE
    /\ modelError' = ""
    /\ UNCHANGED <<appVars, serverVars, available_tools, results, dIdx, runResult, cleaned,
                   fuel, rounds>>

\* A variant of StepFailed that takes every outcome for a success
StepFailedIgnored(r) == FALSE

\* content_generator.py:468   if not step_result.get('success')
StepFailed(r) == ~Get(r, "success", FALSE)

\* content_generator.py:470-473
StepFailure(r) ==
    [success |-> FALSE,
     error |-> <<"step failed", r.step_id, Get(r, "error", "unknown error")>>]

\* content_generator.py:466-475: the outcome of the step is recorded and
\* looked at
StepReturned ==
    /\ dpc = "step"
    /\ pc = "returned"
    /\ results' = Append(results, stepResult)
    /\ IF StepFailed(stepResult)
       THEN /\ runResult' = StepFailure(stepResult)
            /\ dpc' = "cleanup"
            /\ dIdx' = CleanupStart(servers)
       ELSE /\ dpc' = IF stepIdx < NumSteps THEN "plan" ELSE "check"
            /\ UNCHANGED <<runResult, dIdx>>
    \* the locals of execute_step are gone
    /\ step' = None
    /\ previous_results' = <<>>
    /\ pc' = "idle"
    /\ messages' = <<>>
    /\ all_tool_call_details' = <<>>
    /\ iteration' = 0
    /\ publish_success' = FALSE
    /\ publish_error' = None
    /\ response' = [content |-> NoneContent, tool_calls |-> <<>>]
    /\ final_message' = [content |-> NoneContent, tool_calls |-> <<>>]
    /\ tcIdx' = 0
    /\ srvIdx' = 0
    /\ tool_result' = None
    /\ stepResult' = None
    /\ attempt' = 0
    /\ modelCalls' = 0
    /\ toolCalls' = 0
    /\ toolExecuted' = FALSE
    /\ sleeps' = <<>>
    /\ execEnd' = ""
    /\ UNCHANGED <<appVars, serverVars, available_tools, stepIdx, cleaned, envVars>>

\* next((r for r in results if r['step_id'] == 'step3'), None)
Step3Result(rs) ==
    IF \E i \in 1..Len(rs) : rs[i].step_id = "step3"
    THEN rs[CHOOSE i \in 1..Len(rs) :
                /\ rs[i].step_id = "step3"
                /\ \A j \in 1..(i - 1) : rs[j].step_id # "step3"]
    ELSE None

\* content_generator.py:479
RunPublished(rs) ==
    IF Step3Result(rs) = None THEN FALSE
    ELSE Get(Step3Result(rs), "publish_success", FALSE)

\* A variant of ErrorDetail that cuts without stripping
ErrorDetailUnstripped(t) ==
    IF Len(t) > ErrorDetailLimit
    THEN SubSeq(t, 1, ErrorDetailLimit) \o <<".", ".", ".">>
    ELSE t

\* content_generator.py:489-493: the error is stripped, then cut to 500
\* characters and "..." when it is longer
ErrorDetail(t) ==
    LET error_detail == Strip(t)
    IN  IF Len(error_detail) > ErrorDetailLimit
        THEN SubSeq(error_detail, 1, ErrorDetailLimit) \o <<".", ".", ".">>
        ELSE error_detail

\* content_generator.py:483: publish_error of step3, '' without step3
RunPublishError(rs) ==
    IF Step3Result(rs) = None THEN None
    ELSE Get(Step3Result(rs), "publish_error", None)

\* content_generator.py:482-501: the message is the fixed head, then the
\* error detail under its heading, or the hint to retry later
PublishFailure(rs) ==
    [success |-> FALSE,
     error |-> IF RunPublishError(rs) # None /\ Len(Str(RunPublishError(rs))) > 0
               THEN <<"publish failed", "detail">>
                        \o ErrorDetail(Str(RunPublishError(rs)))
               ELSE <<"publish failed", "retry later">>]

\* content_generator.py:516-519: the first publish_content entry of the log
FirstPublishCall(log) ==
    IF \E i \in 1..Len(log) : log[i].name = "publish_content"
    THEN log[CHOOSE i \in 1..Len(log) :
                /\ log[i].name = "publish_content"
                /\ \A j \in 1..(i - 1) : log[j].name # "publish_content"]
    ELSE None

\* content_generator.py:503-544
PublishedContent(rs) ==
    LET log == Get(Step3Result(rs), "tool_calls", <<>>)
        call == FirstPublishCall(log)
    IN  [success |-> TRUE,
         content_data |->
            IF call # None /\ call.arguments # {}
            THEN call.arguments
            ELSE {<<"title", "about the topic">>},
         full_results |-> rs]

\* content_generator.py:477-544: the run's result once every step succeeded
CheckPublish ==
    /\ dpc = "check"
    /\ runResult' = IF RunPublished(results) THEN PublishedContent(results)
                    ELSE PublishFailure(results)
    /\ dpc' = "cleanup"
    /\ dIdx' = CleanupStart(servers)
    /\ UNCHANGED <<appVars, serverVars, available_tools, results, stepIdx, cleaned, stepVars,
                   envVars>>

\* content_generator.py:553-563 with Server.cleanup (xhs_llm_client.py:
\* 199-207): the servers are cleaned up, last registered first
CleanupServer ==
    /\ dpc = "cleanup"
    /\ dIdx > 0
    /\ \E close \in {"ok"} \cup (IF fuel > 0 THEN CloseOutcomes(servers[dIdx]) ELSE {}) :
        /\ DoCleanup(servers[dIdx], close)
        /\ fuel' = IF close = "ok" THEN fuel ELSE fuel - 1
    /\ cleaned' = Append(cleaned, servers[dIdx])
    /\ dIdx' = dIdx - 1
    /\ UNCHANGED <<appVars, servers, dpc, available_tools, results, stepIdx, runResult,
                   stepVars, rounds, deviated, modelError>>

\* generate_and_publish returns
ReturnRun ==
    /\ dpc = "cleanup"
    /\ dIdx = 0
    /\ dpc' = "done"
    /\ UNCHANGED <<appVars, serverVars, available_tools, results, stepIdx, dIdx, runResult,
                   cleaned, stepVars, envVars>>

DriverNext ==
    \/ GetAvailableTools
    \/ CreateServers
    \/ InitializeServer
    \/ InitializeSession
    \/ InitializeHandshake
    \/ InitializeCleanup
    \/ GetAvailableToolsAgain
    \/ StartStep
    \/ StepReturned
    \/ CheckPublish
    \/ CleanupServer
    \/ ReturnRun

\* A ContentGenerator just constructed (content_generator.py:19-33), on
\* which generate_and_publish is called
Init ==
    /\ servers = <<>>
    /\ session = [s \in ServerIds |-> FALSE]
    /\ exit_stack = NoStack
    /\ closed = [s \in ServerIds |-> FALSE]
    /\ acquired = [s \in ServerIds |-> 0]
    /\ released = NoStack
    /\ lastCall = NoCall
    /\ cleaned = <<>>
    /\ dpc = "tools"
    /\ available_tools = <<>>
    /\ results = <<>>
    /\ stepIdx = 0
    /\ dIdx = 0
    /\ runResult = None
    /\ step = None
    /\ previous_results = <<>>
    /\ pc = "idle"
    /\ messages = <<>>
    /\ all_tool_call_details = <<>>
    /\ iteration = 0
    /\ publish_success = FALSE
    /\ publish_error = None
    /\ response = [content |-> NoneContent, tool_calls |-> <<>>]
    /\ final_message = [content |-> NoneContent, tool_calls |-> <<>>]
    /\ tcIdx = 0
    /\ srvIdx = 0
    /\ tool_result = None
    /\ stepResult = None
    /\ attempt = 0
    /\ modelCalls = 0
    /\ toolCalls = 0
    /\ toolExecuted = FALSE
    /\ sleeps = <<>>
    /\ execEnd = ""
    /\ fuel = MaxFuel
    /\ rounds = MaxRunRounds
    /\ deviated = FALSE
    /\ modelError = ""
    /\ config = FullConfig
    /\ self_config = FullConfig
    /\ llm_client = FALSE
    /\ NoTool
    /\ NoRuns
    /\ NoTasks
    /\ NoAdapter

Next == DriverNext \/ StepNext

Spec == Init /\ [][Next]_vars


(***************************************************************************)
(* Tool.to_openai_tool (xhs_llm_client.py:253-272)                         *)
(***************************************************************************)
\* A dict with no key
EmptyDict == [k \in {} |-> ""]

\* d[key] = value on a dict
Put(d, key, value) ==
    [k \in DOMAIN d \cup {key} |-> IF k = key THEN value ELSE d[k]]

\* The dicts of S, and each of them with the key set to one of the values
WithKey(S, key, values) == S \cup { Put(d, key, v) : d \in S, v \in values }

\* The input schemas a provider may declare: any of "type", "properties" (a
\* dict, given as its set of items), "required" and "additionalProperties"
\* may be missing
Schemas ==
    WithKey(WithKey(WithKey(WithKey({EmptyDict},
        "type", {"object", "string"}),
        "properties", {{}, {<<"query", "string">>}}),
        "required", {<<"query">>}),
        "additionalProperties", {FALSE})

\* The tools a provider may declare
Tools ==
    { [name |-> n, description |-> "description", input_schema |-> d] :
        n \in {"search", "publish_content"}, d \in Schemas }

\* xhs_llm_client.py:261-264: an object schema whose properties are missing
\* or empty gets an empty properties dict
Normalized(parameters) ==
    IF /\ Get(parameters, "type", "") = "object"
       /\ ("properties" \notin DOMAIN parameters \/ parameters["properties"] = {})
    THEN Put(parameters, "properties", {})
    ELSE parameters

\* A variant of StoredSchema without the copy: parameters is the stored dict
StoredSchemaAliased(stored, parameters) == parameters

\* xhs_llm_client.py:260: parameters is a copy, so the assignment of line
\* 263 leaves the stored input_schema as it was
StoredSchema(stored, parameters) == stored

\* xhs_llm_client.py:253-272
ToOpenAITool ==
    /\ tool # None
    /\ openai_tool = None
    /\ LET parameters == Normalized(tool.input_schema)
       IN  /\ openai_tool' =
                [type |-> "function",
                 function |-> [name |-> tool.name,
                               description |-> tool.description,
                               parameters |-> parameters]]
           /\ tool' = [tool EXCEPT
                         !.input_schema = StoredSchema(tool.input_schema, parameters)]
    /\ UNCHANGED <<config, generatorVars, lockVars, adapterVars, runVars, serverVars, driverVars, stepVars,
                   envVars>>

\* No generator and no server exists
NoGenerator ==
    /\ servers = <<>>
    /\ session = [s \in ServerIds |-> FALSE]
    /\ exit_stack = NoStack
    /\ closed = [s \in ServerIds |-> FALSE]
    /\ acquired = [s \in ServerIds |-> 0]
    /\ released = NoStack
    /\ lastCall = NoCall
    /\ cleaned = <<>>
    /\ dpc = "none"
    /\ available_tools = <<>>
    /\ results = <<>>
    /\ stepIdx = 0
    /\ dIdx = 0
    /\ runResult = None
    /\ step = None
    /\ previous_results = <<>>
    /\ pc = "idle"
    /\ messages = <<>>
    /\ all_tool_call_details = <<>>
    /\ iteration = 0
    /\ publish_success = FALSE
    /\ publish_error = None
    /\ response = [content |-> NoneContent, tool_calls |-> <<>>]
    /\ final_message = [content |-> NoneContent, tool_calls |-> <<>>]
    /\ tcIdx = 0
    /\ srvIdx = 0
    /\ tool_result = None
    /\ stepResult = None
    /\ attempt = 0
    /\ modelCalls = 0
    /\ toolCalls = 0
    /\ toolExecuted = FALSE
    /\ sleeps = <<>>
    /\ execEnd = ""
    /\ fuel = 0
    /\ rounds = 0
    /\ deviated = FALSE
    /\ modelError = ""
    /\ config = FullConfig
    /\ self_config = NoConfig
    /\ llm_client = FALSE

\* A Tool built from a provider's declaration (xhs_llm_client.py:213-223)
InitTool ==
    /\ tool \in Tools
    /\ openai_tool = None
    /\ NoRuns
    /\ NoTasks
    /\ NoAdapter
    /\ NoGenerator

SpecTool == InitTool /\ [][ToOpenAITool]_vars


(***************************************************************************)
(* Several ContentGenerator objects in one process                         *)
(***************************************************************************)
\* content_generator.py:19-42: the constructor of run r;
\* _create_mcp_config writes the run's values into os.environ
Construct(r) ==
    /\ runPc[r] = "new"
    /\ environ' = [k \in EnvKeys |-> r]
    /\ runPc' = [runPc EXCEPT ![r] = "constructed"]
    /\ UNCHANGED <<childEnv, config, generatorVars, lockVars, adapterVars, toolVars, serverVars, driverVars, stepVars,
                   envVars>>

\* xhs_llm_client.py:121   env={**os.environ, **self.config["env"]}: the
\* keys of EnvKeys are not in the server's env, so they are os.environ's
ProviderEnv(r, env) == env

\* content_generator.py:454 with Server.initialize (xhs_llm_client.py:
\* 113-124): run r starts and builds the parameters of its stdio provider
StartProvider(r) ==
    /\ runPc[r] = "constructed"
    /\ childEnv' = [childEnv EXCEPT ![r] = ProviderEnv(r, environ)]
    /\ runPc' = [runPc EXCEPT ![r] = "running"]
    /\ UNCHANGED <<environ, config, generatorVars, lockVars, adapterVars, toolVars, serverVars, driverVars, stepVars,
                   envVars>>

\* content_generator.py:546-555: run r returns
FinishRun(r) ==
    /\ runPc[r] = "running"
    /\ runPc' = [runPc EXCEPT ![r] = "done"]
    /\ UNCHANGED <<environ, childEnv, config, generatorVars, lockVars, adapterVars, toolVars, serverVars, driverVars,
                   stepVars, envVars>>

RunsNext == \E r \in Runs : Construct(r) \/ StartProvider(r) \/ FinishRun(r)

InitRuns ==
    /\ NoRuns
    /\ NoTasks
    /\ NoAdapter
    /\ NoTool
    /\ NoGenerator

SpecRuns == InitRuns /\ [][RunsNext]_vars


(***************************************************************************)
(* The endpoint /api/generate-and-publish (app.py:240-283)                 *)
(***************************************************************************)
\* The budget of the environment in a run started by the endpoint
MaxAppFuel == 1

\* app.py:243-255: the topic and the stored configuration are looked at; a
\* request that passes gets a ContentGenerator and generate_and_publish runs
AppRequest ==
    /\ dpc = "request"
    /\ \E topic \in {"", "topic"} :
        IF topic = "" \/ ~AppConfigured(config)
        THEN \* 400
             /\ dpc' = "rejected"
             /\ UNCHANGED self_config
        ELSE IF ConstructorRaises(config)
        THEN \* ContentGenerator(config) raises; 500 by lines 281-283
             /\ dpc' = "failed"
             /\ UNCHANGED self_config
        ELSE /\ dpc' = "tools"
             /\ self_config' = config
    /\ UNCHANGED <<config, llm_client, lockVars, adapterVars, toolVars, runVars, serverVars,
                   available_tools, results, stepIdx, dIdx, runResult, cleaned,
                   stepVars, envVars>>

\* app.py:121-133 with ConfigManager.save_config (config_manager.py:52-76):
\* POST /api/config stores a configuration, at any time; a generator that
\* was constructed keeps the dict it was given
SaveConfig ==
    /\ config' \in SavedConfigs
    /\ UNCHANGED <<generatorVars, lockVars, adapterVars, toolVars, runVars, serverVars,
                   driverVars, stepVars, envVars>>

\* app.py:260-283: the result of the run is answered
AppRespond ==
    /\ dpc = "done"
    /\ dpc' = "responded"
    /\ UNCHANGED <<config, generatorVars, lockVars, adapterVars, toolVars, runVars, serverVars, available_tools, results,
                   stepIdx, dIdx, runResult, cleaned, stepVars, envVars>>

AppNext == AppRequest \/ SaveConfig \/ AppRespond \/ DriverNext \/ StepNext

\* A request arrives; the stored configuration holds anything for each of
\* the four fields
InitApp ==
    /\ config \in [ConfigFields -> ConfigValues]
    /\ self_config = NoConfig
    /\ llm_client = FALSE
    /\ NoTool
    /\ NoRuns
    /\ NoTasks
    /\ NoAdapter
    /\ servers = <<>>
    /\ session = [s \in ServerIds |-> FALSE]
    /\ exit_stack = NoStack
    /\ closed = [s \in ServerIds |-> FALSE]
    /\ acquired = [s \in ServerIds |-> 0]
    /\ released = NoStack
    /\ lastCall = NoCall
    /\ cleaned = <<>>
    /\ dpc = "request"
    /\ available_tools = <<>>
    /\ results = <<>>
    /\ stepIdx = 0
    /\ dIdx = 0
    /\ runResult = None
    /\ step = None
    /\ previous_results = <<>>
    /\ pc = "idle"
    /\ messages = <<>>
    /\ all_tool_call_details = <<>>
    /\ iteration = 0
    /\ publish_success = FALSE
    /\ publish_error = None
    /\ response = [content |-> NoneContent, tool_calls |-> <<>>]
    /\ final_message = [content |-> NoneContent, tool_calls |-> <<>>]
    /\ tcIdx = 0
    /\ srvIdx = 0
    /\ tool_result = None
    /\ stepResult = None
    /\ attempt = 0
    /\ modelCalls = 0
    /\ toolCalls = 0
    /\ toolExecuted = FALSE
    /\ sleeps = <<>>
    /\ execEnd = ""
    /\ fuel = MaxAppFuel
    /\ rounds = MaxRunRounds
    /\ deviated = FALSE
    /\ modelError = ""

SpecApp == InitApp /\ [][AppNext]_vars


(***************************************************************************)
(* Server objects called in any order                                      *)
(***************************************************************************)
\* The most contexts that the servers enter between them
MaxEntered == 6

\* How many contexts servers 1..n have entered so far
RECURSIVE EnteredSoFar(_)
EnteredSoFar(n) == IF n = 0 THEN 0 ELSE acquired[n] + EnteredSoFar(n - 1)

\* xhs_llm_client.py:92-104, 115-125: initialize() is called on server s,
\* fresh or ready, and runs up to the end of its first await
ServerInitialize(s) ==
    /\ dpc = "server"
    /\ ipc = Idle
    /\ EnteredSoFar(NumServers) + Len(Entered) <= MaxEntered
    /\ \E o \in {"entered", "invalid", "raised"} :
        IF o = "invalid"
        THEN RaiseInvalid(s)
        ELSE EnterContext(s, 1, o = "entered")
    /\ UNCHANGED <<config, generatorVars, toolVars, runVars, taskVars, adapterVars, servers,
                   driverVars, stepVars, envVars>>

\* xhs_llm_client.py:106, 127: the await that enters the ClientSession ends
ServerEnterSession(s) ==
    /\ dpc = "server"
    /\ ipc = InitializeAt("session", s)
    /\ \E entered \in BOOLEAN : EnterContext(s, 2, entered)
    /\ UNCHANGED <<config, generatorVars, toolVars, runVars, taskVars, adapterVars, servers,
                   driverVars, stepVars, envVars>>

\* xhs_llm_client.py:107-108, 128-129: the await of session.initialize() ends
ServerHandshake(s) ==
    /\ dpc = "server"
    /\ ipc = InitializeAt("handshake", s)
    /\ \E ok \in BOOLEAN : Handshake(s, ok)
    /\ UNCHANGED <<config, generatorVars, toolVars, runVars, taskVars, adapterVars, servers,
                   driverVars, stepVars, envVars>>

\* xhs_llm_client.py:111-112, 132-133: the cleanup() of a failed
\* initialize() ends and the error is raised again
ServerInitializeCleanup(s) ==
    /\ dpc = "server"
    /\ ipc = InitializeAt("cleanup", s)
    /\ \E close \in CloseOutcomes(s) : CleanupAndRaise(s, close)
    /\ UNCHANGED <<config, generatorVars, toolVars, runVars, taskVars, adapterVars, servers,
                   driverVars, stepVars, envVars>>

\* xhs_llm_client.py:135-154: list_tools() is called on server s; it raises
\* without a session and when the session's list_tools() raises
ServerListTools(s) ==
    /\ dpc = "server"
    /\ ipc = Idle
    /\ \E failed \in BOOLEAN :
        lastCall' = [op |-> "list_tools", server |-> s,
                     raised |-> ~session[s] \/ failed]
    /\ UNCHANGED <<appVars, servers, session, exit_stack, closed, acquired, released,
                   driverVars, stepVars,
                   envVars>>

\* xhs_llm_client.py:156-197: execute_tool() is called on server s; it
\* raises without a session and when the tool fails on every attempt
ServerExecuteTool(s) ==
    /\ dpc = "server"
    /\ ipc = Idle
    /\ \E failed \in BOOLEAN :
        lastCall' = [op |-> "execute_tool", server |-> s,
                     raised |-> ~session[s] \/ failed]
    /\ UNCHANGED <<appVars, servers, session, exit_stack, closed, acquired, released,
                   driverVars, stepVars,
                   envVars>>

\* xhs_llm_client.py:199-207: cleanup() is called on server s
ServerCleanup(s) ==
    /\ dpc = "server"
    /\ ipc = Idle
    /\ \E close \in CloseOutcomes(s) : DoCleanup(s, close)
    /\ UNCHANGED <<appVars, servers, driverVars, stepVars, envVars>>

ServerNext ==
    \E s \in ServerIds :
        \/ ServerInitialize(s)
        \/ ServerEnterSession(s)
        \/ ServerHandshake(s)
        \/ ServerInitializeCleanup(s)
        \/ ServerListTools(s)
        \/ ServerExecuteTool(s)
        \/ ServerCleanup(s)

\* Servers just constructed (xhs_llm_client.py:84-90)
InitServer ==
    /\ servers = [i \in 1..NumServers |-> i]
    /\ session = [s \in ServerIds |-> FALSE]
    /\ exit_stack = NoStack
    /\ closed = [s \in ServerIds |-> FALSE]
    /\ acquired = [s \in ServerIds |-> 0]
    /\ released = NoStack
    /\ lastCall = NoCall
    /\ cleaned = <<>>
    /\ dpc = "server"
    /\ available_tools = <<>>
    /\ results = <<>>
    /\ stepIdx = 0
    /\ dIdx = 0
    /\ runResult = None
    /\ step = None
    /\ previous_results = <<>>
    /\ pc = "idle"
    /\ messages = <<>>
    /\ all_tool_call_details = <<>>
    /\ iteration = 0
    /\ publish_success = FALSE
    /\ publish_error = None
    /\ response = [content |-> NoneContent, tool_calls |-> <<>>]
    /\ final_message = [content |-> NoneContent, tool_calls |-> <<>>]
    /\ tcIdx = 0
    /\ srvIdx = 0
    /\ tool_result = None
    /\ stepResult = None
    /\ attempt = 0
    /\ modelCalls = 0
    /\ toolCalls = 0
    /\ toolExecuted = FALSE
    /\ sleeps = <<>>
    /\ execEnd = ""
    /\ fuel = MaxFuel
    /\ rounds = MaxRunRounds
    /\ deviated = FALSE
    /\ modelError = ""
    /\ config = FullConfig
    /\ self_config = NoConfig
    /\ llm_client = FALSE
    /\ NoTool
    /\ NoRuns
    /\ NoTasks
    /\ NoAdapter

SpecServer == InitServer /\ [][ServerNext]_vars


(***************************************************************************)
(* Several cleanup() calls on one Server at the same time                  *)
(* (xhs_llm_client.py:199-207).  The tasks run on one event loop: a task   *)
(* runs alone from one await that suspends it to the next.                 *)
(***************************************************************************)
\* A variant of Locked for a cleanup() that does not look at the lock
NeverLocked(s) == FALSE

\* asyncio.Lock.acquire(), entered by `async with self._cleanup_lock` at
\* xhs_llm_client.py:201, waits when the lock is held or a task is already
\* waiting for it
Locked(s) == cleanup_lock[s] # 0 \/ waiters[s] # <<>>

\* xhs_llm_client.py:201-203: task t calls cleanup() on server s.  With
\* the lock free it takes it and runs into the await of aclose(); else it
\* queues up behind the lock
CleanupEnter(t, s) ==
    /\ dpc = "tasks"
    /\ cpc[t] = Idle
    /\ IF Locked(s)
       THEN /\ waiters' = [waiters EXCEPT ![s] = Append(@, t)]
            /\ cpc' = [cpc EXCEPT ![t] = [at |-> "waiting", server |-> s]]
            /\ UNCHANGED cleanup_lock
       ELSE /\ cleanup_lock' = [cleanup_lock EXCEPT ![s] = t]
            /\ cpc' = [cpc EXCEPT ![t] = [at |-> "closing", server |-> s]]
            /\ UNCHANGED waiters
    /\ UNCHANGED <<config, generatorVars, adapterVars, toolVars, runVars, ipc, serverVars,
                   driverVars, stepVars, envVars>>

\* asyncio.Lock: the first waiter is woken when the lock is released, takes
\* the lock and runs into the await of aclose() (xhs_llm_client.py:201-203)
CleanupWake(t) ==
    /\ dpc = "tasks"
    /\ cpc[t].at = "waiting"
    /\ LET s == cpc[t].server IN
        /\ cleanup_lock[s] = 0
        /\ Head(waiters[s]) = t
        /\ waiters' = [waiters EXCEPT ![s] = Tail(@)]
        /\ cleanup_lock' = [cleanup_lock EXCEPT ![s] = t]
        /\ cpc' = [cpc EXCEPT ![t] = [at |-> "closing", server |-> s]]
    /\ UNCHANGED <<config, generatorVars, adapterVars, toolVars, runVars, ipc, serverVars,
                   driverVars, stepVars, envVars>>

\* xhs_llm_client.py:203-207: aclose() returns or raises in task t; the
\* session is cleared or the error logged, and the `async with` gives the
\* lock back, all without another await
CleanupFinish(t) ==
    /\ dpc = "tasks"
    /\ cpc[t].at = "closing"
    /\ LET s == cpc[t].server IN
        /\ \E close \in CloseOutcomes(s) : DoCleanup(s, close)
        /\ cleanup_lock' = [cleanup_lock EXCEPT ![s] = 0]
    /\ cpc' = [cpc EXCEPT ![t] = Idle]
    /\ UNCHANGED <<config, generatorVars, adapterVars, toolVars, runVars, waiters, ipc, servers,
                   driverVars, stepVars, envVars>>

TasksNext ==
    \E t \in Tasks :
        \/ \E s \in ServerIds : CleanupEnter(t, s)
        \/ CleanupWake(t)
        \/ CleanupFinish(t)

\* Servers of which some are connected, and tasks about to clean them up
InitTasks ==
    /\ servers = [i \in 1..NumServers |-> i]
    /\ session \in [ServerIds -> BOOLEAN]
    /\ exit_stack = [s \in ServerIds |-> IF session[s] THEN Entered ELSE <<>>]
    /\ closed = [s \in ServerIds |-> FALSE]
    /\ acquired = [s \in ServerIds |-> Len(exit_stack[s])]
    /\ released = NoStack
    /\ lastCall = NoCall
    /\ cleaned = <<>>
    /\ dpc = "tasks"
    /\ available_tools = <<>>
    /\ results = <<>>
    /\ stepIdx = 0
    /\ dIdx = 0
    /\ runResult = None
    /\ step = None
    /\ previous_results = <<>>
    /\ pc = "idle"
    /\ messages = <<>>
    /\ all_tool_call_details = <<>>
    /\ iteration = 0
    /\ publish_success = FALSE
    /\ publish_error = None
    /\ response = [content |-> NoneContent, tool_calls |-> <<>>]
    /\ final_message = [content |-> NoneContent, tool_calls |-> <<>>]
    /\ tcIdx = 0
    /\ srvIdx = 0
    /\ tool_result = None
    /\ stepResult = None
    /\ attempt = 0
    /\ modelCalls = 0
    /\ toolCalls = 0
    /\ toolExecuted = FALSE
    /\ sleeps = <<>>
    /\ execEnd = ""
    /\ fuel = 0
    /\ rounds = 0
    /\ deviated = FALSE
    /\ modelError = ""
    /\ config = FullConfig
    /\ self_config = NoConfig
    /\ llm_client = FALSE
    /\ NoTool
    /\ NoRuns
    /\ NoTasks
    /\ NoAdapter

SpecTasks == InitTasks /\ [][TasksNext]_vars


(***************************************************************************)
(* The success detection of execute_step on every kind of result           *)
(* (content_generator.py:345-386)                                          *)
(***************************************************************************)
\* execute_step is entered with a client and every server connected; the
\* calls of its tools return every payload and raise with every error text
InitDetect ==
    /\ InitStepWith(MaxFairFuel)
    /\ dpc = "detect"
    /\ llm_client
    /\ \A s \in ServerIds : session[s]

SpecDetect == InitDetect /\ [][StepNext]_vars


(***************************************************************************)
(* LLMClient and its adapters (xhs_llm_client.py:275-399, llm_adapter.py)  *)
(***************************************************************************)
\* xhs_llm_client.py:292, 328   max_tokens: int = 32000
DefaultMaxTokens == 32000

\* llm_adapter.py:95   kwargs.get("max_tokens", 4096)
AnthropicMaxTokens == 4096

\* xhs_llm_client.py:511: the cap ChatSession.start passes
SessionMaxTokens == 8192

\* The arguments strings an assistant message of the conversation may
\* hold under provider p.  The OpenAI adapter hands over what the provider
\* returned (llm_adapter.py:58), any string; the Anthropic adapter makes
\* the string itself, with json.dumps of the block's input
\* (llm_adapter.py:207-215)
ArgumentsUnder(p) ==
    IF p = "openai" THEN {RawQuery, RawEmptyObject, RawMalformed, ""}
    ELSE {RawQuery, RawEmptyObject}

\* The calls of LLMClient that are looked at.  The conversation is the two
\* initial messages and, with a round, an assistant message requesting
\* search with the arguments string `arguments`, and the tool message
\* answering it.  max_tokens is <<>> when the caller passes none.
LLMCalls ==
    UNION { { [kind |-> "call", op |-> o, provider |-> p, round |-> r,
               arguments |-> a, max_tokens |-> m] :
                o \in {"tool_call", "final"}, r \in BOOLEAN,
                a \in ArgumentsUnder(p),
                m \in {<<>>, <<SessionMaxTokens>>} } :
            p \in {"openai", "anthropic"} }

\* The conversation of call c, as execute_step builds it (289-292, 318-333,
\* 382-386)
Conversation(c) ==
    LET calls == WithIds(<<[name |-> "search", arguments |-> c.arguments]>>, 1)
    IN  InitialMessages \o
        (IF c.round
         THEN << AssistantMsg([content |-> NoneContent, tool_calls |-> calls]),
                 ToolMsg(calls[1], Returned(PayloadPlain)) >>
         ELSE <<>>)

\* A content block of the Anthropic format
Block(type, id, name, input, text, result) ==
    [type |-> type, id |-> id, name |-> name, input |-> input, text |-> text,
     result |-> result]

\* llm_adapter.py:136-146: the tool-use blocks of an assistant message;
\* json.loads raises on an arguments string that is not JSON
ToolUses(tool_calls) ==
    [ok |-> \A i \in 1..Len(tool_calls) : JsonLoads(tool_calls[i].arguments).ok,
     value |-> [i \in 1..Len(tool_calls) |->
                  Block("tool_use", tool_calls[i].id, tool_calls[i].name,
                        JsonLoads(tool_calls[i].arguments).value, "", None)]]

\* llm_adapter.py:117-158: one message in the Anthropic format
ConvertMessage(msg) ==
    CASE msg.role = "system" ->
           [role |-> "system", content |-> msg.content, blocks |-> <<>>]
      [] msg.role = "tool" ->
           [role |-> "user", content |-> "",
            blocks |-> <<Block("tool_result", msg.tool_call_id, "", {}, "",
                               msg.content)>>]
      [] msg.role = "assistant" /\ msg.tool_calls # <<>> ->
           [role |-> "assistant", content |-> "",
            blocks |-> (IF msg.content # ""
                        THEN <<Block("text", 0, "", {}, msg.content, None)>>
                        ELSE <<>>) \o ToolUses(msg.tool_calls).value]
      [] OTHER -> [role |-> msg.role, content |-> msg.content, blocks |-> <<>>]

\* llm_adapter.py:114-160: _convert_messages; ok is false when it raises
ConvertMessages(msgs) ==
    [ok |-> \A i \in 1..Len(msgs) :
                (msgs[i].role = "assistant" /\ msgs[i].tool_calls # <<>>)
                    => ToolUses(msgs[i].tool_calls).ok,
     value |-> [i \in 1..Len(msgs) |-> ConvertMessage(msgs[i])]]

\* llm_adapter.py:83-89, 98-99: system_message is assigned for every system
\* message in turn, and sent when it is not empty
RECURSIVE SystemMessage(_, _)
SystemMessage(converted, i) ==
    IF i = 0 THEN <<>>
    ELSE IF converted[i].role = "system"
         THEN (IF converted[i].content # "" THEN <<converted[i].content>> ELSE <<>>)
         ELSE SystemMessage(converted, i - 1)

\* llm_adapter.py:87-89: the messages that are not system messages
RECURSIVE Filtered(_)
Filtered(converted) ==
    IF converted = <<>> THEN <<>>
    ELSE (IF Head(converted).role = "system" THEN <<>> ELSE <<Head(converted)>>)
         \o Filtered(Tail(converted))

\* The keyword arguments LLMClient passes to chat_completion
\* (xhs_llm_client.py:305-310, 382-387): the temperature, and no max_tokens
Kwargs(c) ==
    [temperature |-> IF c.op = "tool_call" THEN "0.8" ELSE "0.3",
     max_tokens |-> <<>>]

\* A variant of Request in which the OpenAI adapter parses the arguments
\* strings of the conversation as well
RequestParsed(c) ==
    IF \A i \in 1..Len(Conversation(c)) :
          \A j \in 1..Len(Conversation(c)[i].tool_calls) :
             JsonLoads(Conversation(c)[i].tool_calls[j].arguments).ok
    THEN [kind |-> "sent", system |-> <<>>, messages |-> Conversation(c),
          max_tokens |-> Kwargs(c).max_tokens,
          temperature |-> Kwargs(c).temperature]
    ELSE [kind |-> "raised"]

\* llm_adapter.py:43-58 and 80-105: the parameters chat_completion hands to
\* the SDK for the call c, or the JSONDecodeError of _convert_messages
Request(c) ==
    LET sent == IF c.op = "final" THEN EnhancedMessages(Conversation(c))
                ELSE Conversation(c)
        kwargs == Kwargs(c)
        converted == ConvertMessages(sent)
    IN  IF c.provider = "openai"
        THEN [kind |-> "sent", system |-> <<>>, messages |-> sent,
              max_tokens |-> kwargs.max_tokens,
              temperature |-> kwargs.temperature]
        ELSE IF ~converted.ok
        THEN [kind |-> "raised"]
        ELSE [kind |-> "sent",
              system |-> SystemMessage(converted.value, Len(converted.value)),
              messages |-> Filtered(converted.value),
              max_tokens |-> IF kwargs.max_tokens = <<>>
                             THEN <<AnthropicMaxTokens>>
                             ELSE kwargs.max_tokens,
              temperature |-> kwargs.temperature]

\* What the Anthropic provider may return: content blocks, the text blocks
\* with any text, the empty one included, the tool-use blocks with the ids
\* the provider issued
ProviderContents ==
    LET text == Block("text", 0, "", {}, AnswerText, None)
        more == Block("text", 0, "", {}, " more", None)
        empty == Block("text", 0, "", {}, "", None)
        use1 == Block("tool_use", 71, "search", {<<"query", "q">>}, "", None)
        use2 == Block("tool_use", 72, "publish_content", {<<"title", "T1">>}, "", None)
        use3 == Block("tool_use", 73, "publish_content", {}, "", None)
    IN  { <<text>>, <<use1>>, <<use3>>, <<text, use1>>, <<use2, use1>>,
          <<use1, text, use2>>, <<use3, use2, use1>>,
          <<text, more>>, <<empty>>, <<text, use1, more>>, <<empty, use2>> }

\* The blocks of one type, in order
RECURSIVE OfType(_, _)
OfType(blocks, type) ==
    IF blocks = <<>> THEN <<>>
    ELSE (IF Head(blocks).type = type THEN <<Head(blocks)>> ELSE <<>>)
         \o OfType(Tail(blocks), type)

\* A variant of ToolCallOf that numbers the invocations itself
ToolCallNumbered(block, i) ==
    [id |-> i, name |-> block.name, arguments |-> JsonDumps(block.input)]

\* llm_adapter.py:207-215: the invocation made of the i-th tool-use block
ToolCallOf(block, i) ==
    [id |-> block.id, name |-> block.name, arguments |-> JsonDumps(block.input)]

\* llm_adapter.py:201-206: text_content, the texts of the text blocks one
\* after the other
RECURSIVE TextContent(_)
TextContent(blocks) ==
    IF blocks = <<>> THEN ""
    ELSE (IF Head(blocks).type = "text" THEN Head(blocks).text ELSE "")
         \o TextContent(Tail(blocks))

\* llm_adapter.py:175-226: _convert_response; the content is None when
\* text_content is empty (line 217)
ConvertResponse(blocks) ==
    LET text_content == TextContent(blocks)
        uses == OfType(blocks, "tool_use")
    IN  [content |-> IF text_content = "" THEN NoneContent ELSE text_content,
         tool_calls |-> [i \in 1..Len(uses) |-> ToolCallOf(uses[i], i)]]

\* LLMClient.get_tool_call_response or get_final_response is called and
\* its adapter builds the request
ChatCompletion ==
    /\ llmCall.kind = "call"
    /\ request.kind = "none"
    /\ request' = Request(llmCall)
    /\ UNCHANGED <<config, generatorVars, toolVars, runVars, lockVars, llmCall, completion,
                   serverVars, driverVars, stepVars, envVars>>

\* The call returns: the ErrorResponse when the adapter raised
\* (xhs_llm_client.py:313-325, 386-398), what the SDK returned under the
\* OpenAI adapter (llm_adapter.py:58), and the converted response under the
\* Anthropic adapter (llm_adapter.py:102-105)
Complete ==
    /\ llmCall.kind = "call"
    /\ request.kind # "none"
    /\ completion.kind = "none"
    /\ IF request.kind = "raised"
       THEN completion' = [kind |-> "degraded", blocks |-> <<>>,
                           message |-> ErrorResponse(ModelErrorText(llmCall.op))]
       ELSE \E blocks \in ProviderContents :
              completion' = [kind |-> "returned", blocks |-> blocks,
                             message |-> IF llmCall.provider = "anthropic"
                                         THEN ConvertResponse(blocks)
                                         ELSE [content |-> NoneContent,
                                               tool_calls |-> WithIds(<<SearchCall>>, 1)]]
    /\ UNCHANGED <<config, generatorVars, toolVars, runVars, lockVars, llmCall, request,
                   serverVars, driverVars, stepVars, envVars>>

AdapterNext == ChatCompletion \/ Complete

InitAdapter ==
    /\ llmCall \in LLMCalls
    /\ request = [kind |-> "none"]
    /\ completion = [kind |-> "none"]
    /\ NoTool
    /\ NoRuns
    /\ NoTasks
    /\ NoGenerator

SpecAdapter == InitAdapter /\ [][AdapterNext]_vars


(***************************************************************************)
(* Properties                                                              *)
(***************************************************************************)
\* The log holds a publish_content invocation whose result carries a marker
Published ==
    \E i \in 1..Len(all_tool_call_details) :
        /\ all_tool_call_details[i].name = "publish_content"
        /\ all_tool_call_details[i].result \in MarkedResults

\* The result that RecordToolCall is about to record
Pending == IF tool_result = None THEN NotFound(CurrentCall.name) ELSE tool_result

\* No server declares the tool
Undeclared(tool_name) == \A s \in ServerIds : tool_name \notin Catalog(s)

\* n waits of delay seconds each
Delays(n) == [i \in 1..n |-> delay]

\* C1: when the initial response of a step, which a generator with a client
\* gets, carries no tool invocation (the variable response is replaced only
\* by responses that carry some), the
\* step made exactly one completion call, executed and logged no tool,
\* counts 0 iterations, answers with that response's content (the empty
\* string when it has none) and succeeds.
C1_NoToolInitial ==
    (pc = "returned" /\ llm_client /\ Len(response.tool_calls) = 0) =>
        /\ modelCalls = 1
        /\ ~toolExecuted
        /\ stepResult.success = TRUE
        /\ stepResult.total_iterations = 0
        /\ stepResult.tool_calls = <<>>
        /\ stepResult.response =
              (IF response.content \in {NoneContent, ""} THEN ""
               ELSE response.content)
        /\ stepResult.publish_success = FALSE

C1_Witness ==
    /\ pc = "returned"
    /\ llm_client
    /\ Len(response.tool_calls) = 0
    /\ response.content = NoneContent
    /\ stepResult.response = ""
    /\ modelCalls = 1

\* C2: a step never runs more than max_iterations rounds nor makes more
\* than max_iterations + 1 completion calls, and, every model and provider
\* call returning, it returns, also when every response asks for tools.
C2_Terminates ==
    /\ [](iteration <= max_iterations /\ modelCalls <= max_iterations + 1)
    /\ <>(pc = "returned")

C2_Witness ==
    /\ pc = "returned"
    /\ iteration = max_iterations
    /\ modelCalls = max_iterations + 1
    /\ Len(final_message.tool_calls) > 0

\* The step returned because the budget was exhausted: the follow-up of
\* the last round still asked for tools
Exhausted ==
    /\ pc = "returned"
    /\ modelCalls = max_iterations + 1
    /\ Len(final_message.tool_calls) > 0

\* C3, as stated: a step that exhausts its budget succeeds and answers with
\* the fixed exhaustion message.
C3_ExhaustedFixedMessage ==
    Exhausted =>
        /\ stepResult.success = TRUE
        /\ stepResult.response = ExhaustedAnswer

\* C3, amended: a step that exhausts its budget succeeds and answers with
\* the content of the last follow-up response when it has one, and with the
\* fixed exhaustion message when it has none.
C3_ExhaustedAnswer ==
    Exhausted =>
        /\ stepResult.success = TRUE
        /\ stepResult.total_iterations = max_iterations
        /\ stepResult.response =
              (IF final_message.content \in {NoneContent, ""} THEN ExhaustedAnswer
               ELSE final_message.content)

C3_Witness ==
    /\ Exhausted
    /\ final_message.content = AnswerText
    /\ stepResult.response = AnswerText

\* C4: once the log holds a publish_content invocation with a success
\* marker no further completion call is made in the step, and the step
\* returns success with publish_success true and the fixed confirmation.
C4_PublishStops ==
    /\ []((pc = "returned" /\ Published) =>
            /\ stepResult.success = TRUE
            /\ stepResult.publish_success = TRUE
            /\ stepResult.response = PublishedAnswer)
    /\ [][Published => modelCalls' = modelCalls]_vars

\* C5: recording a publish_content result without success marker leaves
\* publish_success as it was, saves the result as publish_error and does
\* not end the step; when the turn ends without a successful publish the
\* only thing the step does next is a follow-up completion call; and the
\* outcome carries the saved error.
C5_FailedPublishContinues ==
    /\ [][(/\ pc = "record"
           /\ CurrentCall.name = "publish_content"
           /\ Pending \notin MarkedResults)
          => (/\ publish_success' = publish_success
              /\ publish_error' = Pending
              /\ pc' \in {"list", "record", "decide"}
              /\ stepResult' = None)]_vars
    /\ [][(pc = "decide" /\ ~Published /\ publish_error # None)
          => modelCalls' = modelCalls + 1]_vars
    /\ []((pc = "returned" /\ ~Published /\ publish_error # None) =>
            /\ stepResult.success = TRUE
            /\ stepResult.publish_success = FALSE
            /\ stepResult.publish_error = publish_error)

\* C6: a tool invocation whose execution failed on every attempt does not
\* abort the step: while its inline error awaits recording the step goes
\* on, and a step whose last execution raised returns success.
C6_FailedToolNeverAborts ==
    /\ tool_result.kind = "error" => pc \in {"list", "call", "record"}
    /\ (pc = "returned" /\ execEnd = "raised") => stepResult.success = TRUE

\* C7: resolving an invocation of a tool that no server declares never
\* ends the step, whatever the state of the servers, and records the
\* not-found result.
C7_UnknownToolNotFound ==
    [][(pc \in {"list", "record"} /\ Undeclared(CurrentCall.name))
       => (/\ pc' # "returned"
           /\ pc = "record" =>
                all_tool_call_details'[Len(all_tool_call_details')].result
                    = NotFound(CurrentCall.name))]_vars

\* C8: a server whose initialize failed plays no part in resolving a tool:
\* when a server that holds a session declares the requested tool, the
\* resolution does not end the step.
C8_FailedServerExcluded ==
    [][(/\ pc = "list"
        /\ \E i \in 1..Len(servers) :
              session[servers[i]] /\ CurrentCall.name \in Catalog(servers[i]))
       => pc' # "returned"]_vars

\* C9: an execute_tool that raised made exactly retries attempts with
\* retries - 1 waits of delay between them; one that returned made at most
\* retries attempts, a wait of delay before each but the first, handed the
\* result of its last attempt to the caller and attempted nothing after it.
C9_RetryBound ==
    /\ pc = "call" =>
          /\ execEnd = ""
          /\ toolCalls < retries
          /\ sleeps = Delays(toolCalls)
    /\ execEnd = "raised" =>
          /\ toolCalls = retries
          /\ sleeps = Delays(retries - 1)
    /\ execEnd = "returned" =>
          /\ toolCalls \in 1..retries
          /\ sleeps = Delays(toolCalls - 1)
          /\ tool_result # None =>
                \E o \in {PayloadSuccess, PayloadFailure, PayloadPlain, PayloadLong} :
                    tool_result = Returned(o)

C9_Witness ==
    /\ execEnd = "raised"
    /\ toolCalls = retries
    /\ sleeps = <<delay>>
    /\ tool_result = InlineError(ExceptionText)

\* C10: a failed outcome is the last one recorded: the run result names its
\* step and error, the driver is cleaning up or done, and no step has been
\* started after it.
C10_StopsAtFailedStep ==
    \A i \in 1..Len(results) :
        results[i].success = FALSE =>
            /\ i = Len(results)
            /\ stepIdx = i
            /\ pc = "idle"
            /\ dpc \in {"cleanup", "done"}
            /\ runResult.success = FALSE
            /\ runResult.error = <<"step failed", StepId(i), results[i].error>>

C10_Witness ==
    /\ dpc = "done"
    /\ Len(results) = 2
    /\ results[2].success = FALSE
    /\ results[1].success = TRUE
    /\ runResult.success = FALSE

\* C11: execute_step never ends by letting an exception out: whatever is
\* raised while the step is prepared or run (no client to ask, list_tools
\* raising on a server with or without session), the step ends with an
\* outcome, and an outcome without success is the step's id and title with
\* the text of the error.
C11_NeverPropagates ==
    /\ pc \in {"prepare", "initial", "list", "call", "record", "decide", "returned"}
    /\ (pc = "returned" /\ ~stepResult.success) =>
          /\ stepResult = FailureResult(stepIdx, stepResult.error)
          /\ stepResult.error \in
                {NoClient("get_tool_call_response")}
                \cup { NotInitialized(s) : s \in ServerIds }
                \cup { ListError(s) : s \in ServerIds }

\* list_tools of a connected server raised after a tool had been executed,
\* and the step returned the failure
C11_Witness ==
    /\ pc = "returned"
    /\ ~stepResult.success
    /\ llm_client
    /\ \A s \in ServerIds : session[s]
    /\ Len(all_tool_call_details) > 0
    /\ stepResult.error = ListError(servers[srvIdx])

\* The ids of the plan, in list order
PlanIds == <<"step1", "step2", "step3">>

\* C12: the outcomes recorded are those of step1, step2, step3 in this
\* order, each once; while a step runs it is the step after the last
\* recorded outcome, and its previous_results are the recorded outcomes; a
\* step starts only when no step runs, and it is the next of the list.
C12_StepsInOrder ==
    /\ [](/\ Len(results) <= Len(PlanIds)
          /\ \A i \in 1..Len(results) : results[i].step_id = PlanIds[i]
          /\ pc # "idle" =>
                /\ dpc = "step"
                /\ Len(results) = stepIdx - 1
                /\ step.id = PlanIds[stepIdx]
                /\ previous_results = results)
    /\ [][pc' = "prepare" =>
            /\ pc = "idle"
            /\ stepIdx' = stepIdx + 1
            /\ Len(results) = stepIdx
            /\ results' = results]_vars

C12_Witness ==
    /\ pc = "prepare"
    /\ step.id = "step3"
    /\ Len(previous_results) = 2
    /\ previous_results[1].step_id = "step1"
    /\ previous_results[2].step_id = "step2"

\* Every step of the plan returned a successful outcome and the run has
\* its result
AllSucceeded ==
    /\ dpc \in {"cleanup", "done"}
    /\ Len(results) = NumSteps
    /\ \A i \in 1..NumSteps : results[i].success

\* C13, as stated: when every step succeeded the run succeeds exactly when
\* step3's publish_success is true; the failure message embeds publish_error
\* cut to its first 500 characters and "..." when it is longer, and the hint
\* to retry later when there is no publish_error.
C13_FailureEmbedsRawError ==
    AllSucceeded =>
        /\ runResult.success = results[NumSteps].publish_success
        /\ ~results[NumSteps].publish_success =>
              runResult.error =
                 (IF results[NumSteps].publish_error = None
                  THEN <<"publish failed", "retry later">>
                  ELSE LET raw == Str(results[NumSteps].publish_error)
                       IN  <<"publish failed", "detail">> \o
                           (IF Len(raw) > ErrorDetailLimit
                            THEN SubSeq(raw, 1, ErrorDetailLimit) \o <<".", ".", ".">>
                            ELSE raw))

\* C13, amended: when every step succeeded the run succeeds exactly when
\* step3's publish_success is true; the failure message embeds publish_error
\* without its leading and trailing whitespace, cut to the first 500
\* characters of that and "..." when that is longer than 500, and the hint
\* to retry later when there is no publish_error.
C13_FailureEmbedsStrippedError ==
    AllSucceeded =>
        /\ runResult.success = results[NumSteps].publish_success
        /\ ~results[NumSteps].publish_success =>
              runResult.error =
                 (IF results[NumSteps].publish_error = None
                  THEN <<"publish failed", "retry later">>
                  ELSE LET t == Strip(Str(results[NumSteps].publish_error))
                       IN  <<"publish failed", "detail">> \o
                           (IF Len(t) > ErrorDetailLimit
                            THEN SubSeq(t, 1, ErrorDetailLimit) \o <<".", ".", ".">>
                            ELSE t))

C13_Witness ==
    /\ AllSucceeded
    /\ dpc = "done"
    /\ results[NumSteps].publish_error = Returned(PayloadLong)
    /\ runResult.success = FALSE
    /\ Len(runResult.error) = 2 + ErrorDetailLimit + 3
    /\ runResult.error[2 + ErrorDetailLimit + 3] = "."

\* C14: the content a successful run returns is the arguments of a
\* publish_content entry of step3's log whose result carries a success
\* marker.
C14_ReturnsPublishedArguments ==
    (dpc \in {"cleanup", "done"} /\ Get(runResult, "success", FALSE)) =>
        \E i \in 1..Len(results[NumSteps].tool_calls) :
            /\ results[NumSteps].tool_calls[i].name = "publish_content"
            /\ results[NumSteps].tool_calls[i].result \in MarkedResults
            /\ runResult.content_data = results[NumSteps].tool_calls[i].arguments

\* The servers of a run, last registered first
Reversed(srvs) == [i \in 1..Len(srvs) |-> srvs[Len(srvs) + 1 - i]]

\* C15: generate_and_publish returns on every path only after cleanup() was
\* invoked on every server the run created, last registered first, and a
\* close that raised on one server does not keep the others from being
\* cleaned up; no cleanup happens before the result of the run is decided.
C15_CleanupOnEveryPath ==
    /\ dpc = "done" => (runResult # None /\ cleaned = Reversed(servers))
    /\ dpc \notin {"cleanup", "done"} => cleaned = <<>>
    /\ dpc = "cleanup" =>
          /\ runResult # None
          /\ cleaned = SubSeq(Reversed(servers), 1, Len(servers) - dIdx)

C15_Witness ==
    /\ dpc = "done"
    /\ runResult.success = FALSE
    /\ Len(servers) = NumServers
    /\ cleaned = Reversed(servers)
    /\ session[servers[NumServers]]
    /\ ~session[servers[1]]
    /\ lastCall = [op |-> "cleanup", server |-> servers[1], raised |-> FALSE]

\* C16: generate_and_publish never leaves without a result: whatever failed
\* (the configuration or the client, a connection, the model, a tool), once
\* the run is past its steps its result is either a success that carries the
\* content or a failure that carries a text, and it stays that result until
\* the call returns.
C16_AlwaysStructuredResult ==
    /\ dpc \in {"cleanup", "done"} =>
          /\ runResult # None
          /\ DOMAIN runResult \in {{"success", "content_data", "full_results"},
                                   {"success", "error"}}
          /\ runResult.success = ("content_data" \in DOMAIN runResult)
          /\ ~runResult.success => Len(runResult.error) > 0
    /\ dpc \notin {"cleanup", "done"} => runResult = None

C16_Witness ==
    /\ dpc = "done"
    /\ runResult = [success |-> FALSE, error |-> <<"the client could not be built">>]
    /\ Len(servers) = NumServers
    /\ results = <<>>

\* C17: when cleanup() is called twice in a row on a server, in whatever
\* state the server was, neither call raises and the session is absent after
\* the first call and after the second.
C17_CleanupTwice ==
    [][\A s \in ServerIds :
          (/\ lastCall = [op |-> "cleanup", server |-> s, raised |-> lastCall.raised]
           /\ lastCall' = [op |-> "cleanup", server |-> s, raised |-> lastCall'.raised]
           /\ ipc = Idle
           /\ ipc' = Idle)
          => /\ ~lastCall.raised /\ ~session[s]
             /\ ~lastCall'.raised /\ ~session'[s]]_vars

\* C18: when cleanup() has returned the session is absent, whether the close
\* succeeded or raised, and cleanup() did not raise.
C18_CleanupClearsSession ==
    lastCall.op = "cleanup" => (~lastCall.raised /\ ~session[lastCall.server])

\* C19: a server's session appears only in a call of initialize() on that
\* server, and a server that cleanup() has closed never has a session again.
C19_OneWay ==
    [][\A s \in ServerIds :
          /\ (~session[s] /\ session'[s]) =>
                lastCall' = [op |-> "initialize", server |-> s, raised |-> FALSE]
          /\ closed[s] => ~session'[s]]_vars

\* C20: a model call whose completion raised hands execute_step a response
\* with the error's text and no tool invocations; the step takes it for the
\* final answer and ends with success = true and that text as its response,
\* and no error of a model call reaches execute_step.
C20_ModelErrorDegrades ==
    modelError # "" =>
        /\ pc = "returned"
        /\ stepResult.success
        /\ stepResult.response = ModelErrorText(modelError)
        /\ LET degraded == IF modelError = "tool_call" THEN response
                           ELSE final_message
           IN  /\ degraded.content = ModelErrorText(modelError)
               /\ degraded.tool_calls = <<>>

C20_Witness ==
    /\ modelError = "final"
    /\ pc = "returned"
    /\ iteration = 1
    /\ Len(all_tool_call_details) = 1
    /\ stepResult.success
    /\ stepResult.response = ModelErrorText("final")
    /\ stepResult.tool_calls = all_tool_call_details

\* C21: when one of the four required configuration values is missing the
\* run fails before any connection is attempted: initialize() is called on
\* no server.
C21_FailsFast ==
    (\E f \in ConfigFields : self_config[f] # "set") =>
        (ipc = Idle /\ lastCall.op # "initialize")

\* C22: for a tool whose schema has type "object" and missing or empty
\* properties, to_openai_tool returns parameters that are the schema with an
\* empty properties dict; for every other schema the parameters are the
\* schema; the tool's stored input_schema is never modified.
C22_EmptyPropertiesAdded ==
    /\ [][/\ tool'.input_schema = tool.input_schema
          /\ tool'.name = tool.name]_vars
    /\ [](openai_tool # None =>
            LET schema == tool.input_schema
                parameters == openai_tool.function.parameters
                bare == /\ "type" \in DOMAIN schema
                        /\ schema["type"] = "object"
                        /\ ("properties" \in DOMAIN schema => schema["properties"] = {})
            IN  /\ openai_tool.function.name = tool.name
                /\ bare => /\ DOMAIN parameters = DOMAIN schema \cup {"properties"}
                           /\ parameters["properties"] = {}
                           /\ \A k \in DOMAIN schema \ {"properties"} :
                                 parameters[k] = schema[k]
                /\ ~bare => parameters = schema)

C22_Witness ==
    /\ openai_tool # None
    /\ tool.name = "search"
    /\ DOMAIN tool.input_schema = {"type", "required"}
    /\ tool.input_schema["type"] = "object"
    /\ DOMAIN openai_tool.function.parameters = {"type", "required", "properties"}
    /\ openai_tool.function.parameters["properties"] = {}

\* C23: runs share no mutable state: whatever a run reads, here the
\* environment it hands to its provider, holds no value written by another
\* run.
C23_NoSharedState ==
    \A r \in Runs : \A k \in EnvKeys : childEnv[r][k] \in {Unset, r}

\* C24: when a step ends because its iterations are used up, its answer is
\* the content of the last follow-up response when that content is not
\* empty and the fixed exhaustion message when it is None or empty; the step
\* succeeds either way.
C24_ExhaustionKeepsContent ==
    Exhausted =>
        LET content == final_message.content
        IN  /\ final_message = response
            /\ stepResult.success
            /\ content \notin {NoneContent, ""} => stepResult.response = content
            /\ content \in {NoneContent, ""} => stepResult.response = ExhaustedAnswer

C24_Witness ==
    /\ Exhausted
    /\ iteration = max_iterations
    /\ final_message.content = NoneContent
    /\ stepResult.success
    /\ stepResult.response = ExhaustedAnswer

\* The log holds, for the current turn, a publish_content invocation whose
\* result carries a marker
PublishedThisTurn ==
    \E i \in 1..Len(all_tool_call_details) :
        /\ all_tool_call_details[i].iteration = iteration
        /\ all_tool_call_details[i].name = "publish_content"
        /\ all_tool_call_details[i].result \in MarkedResults

\* C25: when a step has ended in the turn in which a publish succeeded,
\* every invocation of that turn, those listed after the publish included,
\* is in the tool log with that iteration and has its tool message in the
\* conversation after the turn's assistant message, in the order requested.
C25_SameTurnCallsRecorded ==
    (pc = "returned" /\ PublishedThisTurn) =>
        LET calls == response.tool_calls
            n == Len(calls)
            log == all_tool_call_details
            L == Len(log)
            M == Len(messages)
        IN  /\ L >= n
            /\ M >= n + 1
            /\ messages[M - n].role = "assistant"
            /\ messages[M - n].tool_calls = calls
            /\ \A i \in 1..n :
                  /\ log[L - n + i].iteration = iteration
                  /\ log[L - n + i].name = calls[i].name
                  /\ messages[M - n + i].role = "tool"
                  /\ messages[M - n + i].tool_call_id = calls[i].id
                  /\ messages[M - n + i].content = log[L - n + i].result
            /\ \A j \in 1..(L - n) : log[j].iteration < iteration

\* The first server, in registration order, whose catalog holds the name
FirstDeclaring(tool_name) ==
    CHOOSE i \in 1..Len(servers) :
        /\ tool_name \in Catalog(servers[i])
        /\ \A j \in 1..(i - 1) : tool_name \notin Catalog(servers[j])

\* C26: an invocation is executed on the first server, in registration
\* order, whose catalog holds its name and on no other: whether the
\* execution returned or raised, what follows it is the recording of that
\* server's result or error.
C26_FirstMatchOnly ==
    /\ [](pc = "call" => srvIdx = FirstDeclaring(CurrentCall.name))
    /\ [][(pc = "call" /\ pc' # "call") =>
             /\ pc' = "record"
             /\ tool_result' # None]_vars

\* The tool message at position i answers a call of an assistant message
\* before it
Answers(i) ==
    \E j \in 1..(i - 1) :
        /\ messages[j].role = "assistant"
        /\ \E c \in 1..Len(messages[j].tool_calls) :
              messages[j].tool_calls[c].id = messages[i].tool_call_id

\* The assistant message at position i is followed by the tool messages of
\* its first k invocations, in order, and by no other tool message
Answered(i, k) ==
    /\ i + k <= Len(messages)
    /\ \A c \in 1..k :
          /\ messages[i + c].role = "tool"
          /\ messages[i + c].tool_call_id = messages[i].tool_calls[c].id
    /\ i + k < Len(messages) => messages[i + k + 1].role # "tool"

\* The position of the last assistant message
LastAssistant ==
    CHOOSE i \in 1..Len(messages) :
        /\ messages[i].role = "assistant"
        /\ \A j \in (i + 1)..Len(messages) : messages[j].role # "assistant"

\* C27: in the conversation of a step every tool message references a call
\* id of an assistant message before it; every assistant message is followed
\* by exactly one tool message per invocation, in the order of the
\* invocations and with their call ids, whenever the conversation is handed
\* to the model or the step has returned a result, and while a turn is being
\* executed its assistant message is followed by those of the invocations
\* already recorded.
C27_ToolMessagesMatchCalls ==
    /\ \A i \in 1..Len(messages) : messages[i].role = "tool" => Answers(i)
    /\ \A i \in 1..Len(messages) :
          (/\ messages[i].role = "assistant"
           /\ \/ pc \in {"initial", "decide"}
              \/ pc = "returned" /\ stepResult.success
              \/ i # LastAssistant)
          => Answered(i, Len(messages[i].tool_calls))
    /\ pc \in {"list", "call", "record"} =>
          /\ messages[LastAssistant].tool_calls = response.tool_calls
          /\ Answered(LastAssistant, tcIdx - 1)

C27_Witness ==
    /\ pc = "returned"
    /\ stepResult.success
    /\ Len(messages) = 7
    /\ messages[3].role = "assistant"
    /\ Len(messages[3].tool_calls) = 1
    /\ messages[4].tool_call_id = messages[3].tool_calls[1].id
    /\ messages[5].role = "assistant"
    /\ Len(messages[5].tool_calls) = 2
    /\ messages[6].tool_call_id = messages[5].tool_calls[1].id
    /\ messages[7].tool_call_id = messages[5].tool_calls[2].id
    /\ messages[6].tool_call_id # messages[7].tool_call_id


\* The contexts of server s that are entered and not yet exited
Held(s) == (acquired[s] - Len(exit_stack[s]) + 1)..acquired[s]

\* The contexts of server s that were exited `n` times
ExitedTimes(s, n) ==
    { c \in 1..acquired[s] :
        Cardinality({ i \in 1..Len(released[s]) : released[s][i] = c }) = n }

\* C28: over any sequence of initialize() and cleanup() calls every context
\* a Server entered is exited at most once, the ones not yet exited are
\* the ones its exit stack holds, and once a call has closed the stack (a
\* cleanup(), or an initialize() that failed inside its try) every context
\* ever entered has been exited exactly once, as long as no initialize() is
\* under way on the server
C28_ReleasedExactlyOnce ==
    \A s \in ServerIds :
        /\ ExitedTimes(s, 0) = Held(s)
        /\ ExitedTimes(s, 1) = (1..acquired[s]) \ Held(s)
        /\ Len(released[s]) = Cardinality(ExitedTimes(s, 1))
        /\ ( /\ lastCall.server = s
             /\ ipc.server # s
             /\ \/ lastCall.op = "cleanup"
                \/ lastCall.op = "initialize" /\ lastCall.raised
                   /\ exit_stack[s] = <<>> )
           => ExitedTimes(s, 1) = 1..acquired[s]

\* An initialize() that failed with only the transport entered, then the
\* cleanup() at the end of the run: the transport was exited once
C28_Witness ==
    \E s \in ServerIds :
        /\ lastCall = [op |-> "cleanup", server |-> s, raised |-> FALSE]
        /\ acquired[s] = 1
        /\ released[s] = <<1>>
        /\ exit_stack[s] = <<>>

\* The tasks that are between taking the lock of server s and giving it
\* back: closing the exit stack and clearing the session
Closing(s) == { t \in Tasks : cpc[t] = [at |-> "closing", server |-> s] }

\* C29: of the cleanup() calls made at the same time on one Server at most
\* one is closing the exit stack and clearing the session; it holds the
\* lock, and every other call on that server waits for it
C29_OneCleanupAtATime ==
    \A s \in ServerIds :
        /\ Cardinality(Closing(s)) <= 1
        /\ Closing(s) = IF cleanup_lock[s] = 0 THEN {} ELSE {cleanup_lock[s]}
        /\ \A i \in 1..Len(waiters[s]) :
               cpc[waiters[s][i]] = [at |-> "waiting", server |-> s]

\* A cleanup() is suspended in aclose() on a connected server while a
\* second cleanup() of the same server waits for the lock
C29_Witness ==
    \E s \in ServerIds : \E t, u \in Tasks :
        /\ t # u
        /\ Closing(s) = {t}
        /\ exit_stack[s] # <<>>
        /\ waiters[s] = <<u>>

\* The catalog of server s is among the tools get_available_tools
\* gathered: its provider has been asked for it
Gathered(s) == \E i \in 1..Len(available_tools) : available_tools[i] = Catalog(s)

\* C30: a provider is asked for its catalog at most once while it is
\* connected: once get_available_tools has gathered the catalog of a
\* server, no resolution of a tool name sends that server another
\* list_tools request
C30_CatalogFetchedOnce ==
    [][ListTools => ~(session[servers[srvIdx]] /\ Gathered(servers[srvIdx]))]_vars

\* C31: the detection is lexical.  When the invocation that is recorded is
\* of publish_content, publish_success becomes true if the lower-cased text
\* of the result holds one of the three markers and publish_error is left
\* alone, and otherwise publish_success is left alone and the result
\* becomes publish_error, whether the result was returned, is the inline
\* error or is the not-found message; an invocation of another tool
\* changes neither
C31_LexicalDetection ==
    [][RecordToolCall =>
         LET r == IF tool_result = None THEN NotFound(CurrentCall.name)
                  ELSE tool_result
             lexical == \E m \in SuccessMarkers : Contains(Lower(Str(r)), m)
         IN  IF CurrentCall.name = "publish_content"
             THEN IF lexical
                  THEN publish_success' /\ publish_error' = publish_error
                  ELSE publish_success' = publish_success /\ publish_error' = r
             ELSE UNCHANGED <<publish_success, publish_error>>]_vars

\* A publish_content that failed on every attempt, with an error whose text
\* holds "success", was recorded and counts as published
C31_Witness ==
    /\ pc = "decide"
    /\ publish_success
    /\ publish_error = None
    /\ execEnd = "raised"
    /\ Len(all_tool_call_details) = 1
    /\ all_tool_call_details[1].name = "publish_content"
    /\ all_tool_call_details[1].result = InlineError(ExceptionMarked)

\* The arguments strings that are not a JSON object
Malformed == {RawMalformed, ""}

\* C32: an arguments string that is not JSON is taken as {} and is never an
\* error: execute_step parses it to the empty dict, and the model call that
\* follows the round, whose conversation holds the string, reaches the
\* provider under both adapters
C32_MalformedNeverAnError ==
    /\ \A raw \in Malformed : ParseArguments(raw) = {}
    /\ (llmCall.kind = "call" /\ request.kind # "none")
           => request.kind = "sent" /\ completion.kind # "degraded"

\* Under the OpenAI adapter the call that follows a round whose invocation
\* had a malformed arguments string was sent and answered
C32_Witness ==
    /\ llmCall.kind = "call"
    /\ llmCall.provider = "openai"
    /\ llmCall.round
    /\ llmCall.arguments = RawMalformed
    /\ request.kind = "sent"
    /\ request.messages[3].tool_calls[1].arguments = RawMalformed
    /\ completion.kind = "returned"

\* C33: under the Anthropic adapter the system slot of the request carries
\* the first system message of the conversation, that is the step's system
\* prompt, also when get_final_response has appended its decision prompt
C33_FirstSystemMessage ==
    (llmCall.kind = "call" /\ llmCall.provider = "anthropic" /\ request.kind = "sent")
        => request.system = <<InitialMessages[1].content>>

\* C34: the Anthropic adapter issues no call ids of its own.  The i-th
\* invocation of the converted response has the id and the name of the
\* i-th tool-use block the provider returned and arguments that parse to
\* its input, and translating the assistant message made of the response
\* (content_generator.py:318-333) back gives the same tool-use blocks
C34_IdsRoundTrip ==
    (completion.kind = "returned" /\ llmCall.provider = "anthropic")
        => LET uses == OfType(completion.blocks, "tool_use")
               calls == completion.message.tool_calls
               back == ConvertMessage(AssistantMsg(completion.message))
           IN  /\ Len(calls) = Len(uses)
               /\ \A i \in 1..Len(uses) :
                     /\ calls[i].id = uses[i].id
                     /\ calls[i].name = uses[i].name
                     /\ JsonLoads(calls[i].arguments) =
                            [ok |-> TRUE, value |-> uses[i].input]
               /\ uses # <<>> => /\ ToolUses(calls).ok
                                 /\ OfType(back.blocks, "tool_use") = uses

\* The provider returned three tool-use blocks, one of them with an empty
\* input, and the response was converted
C34_Witness ==
    /\ completion.kind = "returned"
    /\ llmCall.provider = "anthropic"
    /\ Len(completion.message.tool_calls) = 3
    /\ completion.message.tool_calls[1].arguments = RawEmptyObject

\* C35: when the caller passes no max_tokens, the request carries the cap
\* 32000, under both adapters and for both methods of LLMClient
C35_DefaultCap ==
    (llmCall.kind = "call" /\ llmCall.max_tokens = <<>> /\ request.kind = "sent")
        => request.max_tokens = <<DefaultMaxTokens>>

\* The messages of the conversation with role `role`
WithRole(role) == { i \in 1..Len(messages) : messages[i].role = role }

\* C36: in a successful step result total_iterations is between 0 and 10
\* and is the number of rounds in which tools were executed (one assistant
\* message each); the tool log has one entry for each tool message, every
\* entry has an iteration between 1 and total_iterations, and the
\* iterations of the log never decrease
C36_IterationAccounting ==
    (pc = "returned" /\ stepResult.success) =>
        LET log == stepResult.tool_calls
            total == stepResult.total_iterations
        IN  /\ total \in 0..max_iterations
            /\ total = Cardinality(WithRole("assistant"))
            /\ Len(log) = Cardinality(WithRole("tool"))
            /\ \A i \in 1..Len(log) : log[i].iteration \in 1..total
            /\ \A i \in 1..(Len(log) - 1) : log[i].iteration <= log[i + 1].iteration

\* A step that returned after all ten rounds, with one log entry for each
C36_Witness ==
    /\ pc = "returned"
    /\ stepResult.success
    /\ stepResult.total_iterations = max_iterations
    /\ Len(stepResult.tool_calls) = max_iterations
    /\ stepResult.tool_calls[1].iteration = 1
    /\ stepResult.tool_calls[max_iterations].iteration = max_iterations

\* The tool log of the finished steps of the run, in order
RECURSIVE EarlierLogs(_)
EarlierLogs(n) ==
    IF n = 0 THEN <<>>
    ELSE EarlierLogs(n - 1) \o Get(results[n], "tool_calls", <<>>)

\* Every invocation the run has recorded so far
RunLog == EarlierLogs(Len(results)) \o all_tool_call_details

\* The invocation was handed to a server
Executed(entry) == entry.result.kind # "notfound"

\* C37: within one run, once a publish_content invocation has returned a
\* success-marked result, no further publish_content invocation is executed,
\* neither later in the same turn, nor in a later round, nor in a later step.
C37_PublishedAtMostOnce ==
    \A i, j \in 1..Len(RunLog) :
        (/\ i < j
         /\ RunLog[i].name = "publish_content"
         /\ RunLog[i].result \in MarkedResults
         /\ RunLog[j].name = "publish_content")
            => ~Executed(RunLog[j])

\* The log of a returned outcome holds a marked publish_content entry
OutcomePublished ==
    \E i \in 1..Len(stepResult.tool_calls) :
        /\ stepResult.tool_calls[i].name = "publish_content"
        /\ stepResult.tool_calls[i].result \in MarkedResults

\* C38: in every outcome that execute_step returns, publish_success = true
\* implies that publish_error is null and that the tool log holds a
\* publish_content entry whose result carries a success marker.
C38_SuccessHasNoError ==
    (pc = "returned" /\ stepResult.success /\ stepResult.publish_success) =>
        /\ stepResult.publish_error = None
        /\ OutcomePublished

\* The ids of the invocations that the model requested in the step: those of
\* the responses that opened a round and those of the last follow-up
RequestedIds ==
    UNION { { messages[i].tool_calls[j].id : j \in 1..Len(messages[i].tool_calls) } :
            i \in WithRole("assistant") }
    \cup { final_message.tool_calls[j].id : j \in 1..Len(final_message.tool_calls) }

\* The ids of the invocations that have a tool message
RecordedIds == { messages[i].tool_call_id : i \in WithRole("tool") }

\* C39: every invocation that the model requested during execute_step has
\* been executed and recorded when the step ends, those of the final
\* follow-up response of an exhausted loop included.
C39_NoInvocationDropped ==
    (pc = "returned" /\ stepResult.success) =>
        /\ RequestedIds \subseteq RecordedIds
        /\ Len(stepResult.tool_calls) = Cardinality(RequestedIds)

\* C40: get_final_response leaves the conversation of execute_step as it
\* was: the conversation is the 2 initial messages, one assistant message
\* for each round and one tool message for each recorded invocation, and the
\* decision prompt is in none of them.
C40_ConversationUntouched ==
    pc \notin {"idle", "raised"} =>
        /\ SubSeq(messages, 1, 2) = InitialMessages
        /\ WithRole("system") = {1}
        /\ WithRole("user") = {2}
        /\ Cardinality(WithRole("assistant")) = iteration
        /\ Cardinality(WithRole("tool")) = Len(all_tool_call_details)
        /\ Len(messages) = 2 + iteration + Len(all_tool_call_details)
        /\ \A i \in 1..Len(messages) :
              messages[i].role # "tool" => messages[i].content # DecisionPrompt

\* A step that returned after two rounds, that is after two follow-up calls
C40_Witness ==
    /\ pc = "returned"
    /\ stepResult.success
    /\ iteration = 2
    /\ modelCalls = 3
    /\ Len(all_tool_call_details) = 2
    /\ Len(messages) = 6

=============================================================================
